---- MODULE Spec2Model ----
(***************************************************************************)
(* A model of the guild gatekeeper bot                                     *)
(* (src/discord_bot/guildGateKeeper/bot.py): the onboarding verification   *)
(* gate with its reconciliation sweep, and the current-week raid mirror.   *)
(*                                                                         *)
(* Handlers are asyncio coroutines.  The code between two awaits runs      *)
(* without interruption, so every action below is one such block: it       *)
(* begins where a handler starts or resumes after an awaited platform      *)
(* call, applies the effect of that call, and runs to the next await (or   *)
(* to the end of the handler).  A handler slot holds the coroutine's       *)
(* position (pc) and its local variables.                                  *)
(*                                                                         *)
(* Python dicts are functions whose domain is the set of keys present.     *)
(* A record of verified_users is a dict object on a small heap, because    *)
(* the handlers keep references to it across awaits and mutate it in       *)
(* place.                                                                  *)
(*                                                                         *)
(* Abstractions.  Two of the nine class roles and two of the four raid     *)
(* keys are modelled; the class roles always exist in the guild; the       *)
(* member.roles cache is the live role state; an acknowledgement and the   *)
(* log embed that follows it are one await; fixgate is one gate evaluation *)
(* per member; the permission decorators of fixgate and auditsnapshot are  *)
(* left out (every modelled call of them passed the decorator); resetclass *)
(* takes the author's permission, the presence of a member argument and    *)
(* its cooldown as inputs.  A process stop is modelled inside the saves of *)
(* the flag buttons and of the raid post only.                             *)
(* The guild configuration does not change within a behaviour.             *)
(* An awaited platform call may raise while failBudget is positive; the    *)
(* specifications below, SpecFaulty and SpecMirrorFaulty apart, start with *)
(* failBudget = 0, so in them every call on a present member or a live     *)
(* message succeeds.                                                       *)
(* The onboarding gate                                                     *)
(* and the raid mirror share no state, and each has its own                *)
(* specifications.                                                         *)
(***************************************************************************)
EXTENDS Integers, Sequences, FiniteSets, TLC

\* ------------------------------------------------------------------------
\* Configuration of the bot
\* ------------------------------------------------------------------------
NEWCOMER_ROLE == "Newcomer"
MEMBER_ROLE == "Guild Member"
VISITOR_ROLE == "Visitor"
DEFAULT_TRACK == "member"
VALID_TRACKS == {"member", "visitor"}

\* The first two of the nine class roles, in list order.
CLASS_ROLES == <<"Druid", "Hunter">>

ClassSet == {CLASS_ROLES[i] : i \in 1..Len(CLASS_ROLES)}

TrackRoles == {NEWCOMER_ROLE, MEMBER_ROLE, VISITOR_ROLE}

\* ------------------------------------------------------------------------
\* The population of the model
\* ------------------------------------------------------------------------
UserList == <<"u1">>

Users == {UserList[i] : i \in 1..Len(UserList)}

Handlers == {"h1", "h2"}

\* One dict object per user record and one per handler-local dict.
ObjIds == 1..(Cardinality(Users) + Cardinality(Handlers))

NoObj == 0

\* The number of platform calls that may fail in one behaviour.
MaxFailures == 1

\* Two of the four raid keys of SOURCE_CHANNELS, in dict order.
RaidKeyList == <<"AQ20-Thursday", "AQ20-Sunday">>

RaidKeys == {RaidKeyList[i] : i \in 1..Len(RaidKeyList)}

\* The ISO weeks the clock runs through.
MaxWeek == 2

\* The number of messages posted to the source channels.
MaxSrc == 2

\* No message id.
NoMsg == 0

\* The number of messages the engine sends while events are redelivered.
MaxDest == 3

VARIABLES
    verified_users,   \* the in-memory dict: user id -> reference to a dict object
    heap,             \* dict objects: reference -> dict
    disk,             \* verified_users.json: user id -> dict
    roles,            \* member.roles of every user (the live role state)
    present,          \* the users that are members of the guild
    guild,            \* which roles and channels the guild has
    proc,             \* the handler slots (position and locals of each coroutine)
    failBudget,       \* platform calls that may still fail
    state,            \* CurrentWeekRaidMirror.state: week_key and mirrors
    state_disk,       \* raid_mirror_state.json
    messages,         \* the live messages of the destination channel, by id
    sent,             \* every message the engine has sent there, in id order
    source,           \* the messages of each source channel, oldest first
    wk_now            \* the current ISO week

vars ==
    <<verified_users, heap, disk, roles, present, guild, proc, failBudget,
      state, state_disk, messages, sent, source, wk_now>>

\* ------------------------------------------------------------------------
\* Dicts
\* ------------------------------------------------------------------------
EmptyDict == << >>

\* d.get(k, def)
Get(d, k, def) == IF k \in DOMAIN d THEN d[k] ELSE def

\* d[k] = v
Put(d, k, v) == [x \in (DOMAIN d) \cup {k} |-> IF x = k THEN v ELSE d[x]]

\* del d[k]
Del(d, k) == [x \in (DOMAIN d) \ {k} |-> d[x]]

Range(f) == {f[x] : x \in DOMAIN f}

\* ------------------------------------------------------------------------
\* Handler slots
\* ------------------------------------------------------------------------
\* kind, user, arg: the handler and its arguments; pc: its position; ref,
\* track, added, removed, has_newcomer, idx, todo: its local variables.
\* History: log, the calls and writes the handler has made; failed, whether
\* one of its platform calls raised; before, for a fixgate run or a sweep
\* that directly follows a completed run of the same kind on the same member
\* in which no call failed, the log of that run and "repeat" (else empty).
IdleProc ==
    [kind |-> "idle", pc |-> "idle", user |-> "-", ref |-> NoObj, arg |-> "-",
     track |-> "-", added |-> FALSE, removed |-> FALSE, has_newcomer |-> FALSE,
     idx |-> 0, todo |-> {}, log |-> {}, failed |-> FALSE, before |-> {},
     raidkey |-> "-", src |-> NoMsg, embed |-> FALSE, wk |-> 0, purge |-> << >>,
     existing |-> NoMsg, ew |-> "-", bound0 |-> {}]

InFlight(h) == proc[h].pc \notin {"idle", "done"}

Quiet == \A h \in Handlers : ~InFlight(h)

\* The state a block works on: the shared state and the slot of the handler.
Cur(h) ==
    [vu |-> verified_users, heap |-> heap, disk |-> disk, roles |-> roles,
     present |-> present, p |-> proc[h], st |-> state, sd |-> state_disk,
     messages |-> messages, sent |-> sent, source |-> source]

\* The dict objects that are still referenced.
Live(vu, pr) == Range(vu) \cup {pr[g].ref : g \in Handlers}

GC(hp, vu, pr) == [o \in ObjIds |-> IF o \in Live(vu, pr) THEN hp[o] ELSE EmptyDict]

\* A block's result becomes the next state.
Commit(h, s) ==
    /\ verified_users' = s.vu
    /\ disk' = s.disk
    /\ roles' = s.roles
    /\ present' = s.present
    /\ proc' = [proc EXCEPT ![h] = s.p]
    /\ heap' = GC(s.heap, s.vu, [proc EXCEPT ![h] = s.p])
    /\ state' = s.st
    /\ state_disk' = s.sd
    /\ messages' = s.messages
    /\ sent' = s.sent
    /\ source' = s.source

\* {} : a new dict object
FreshObj(s, h) ==
    LET used == Range(s.vu) \cup {proc[g].ref : g \in Handlers \ {h}}
    IN  CHOOSE o \in ObjIds : o \notin used /\ \A o2 \in ObjIds \ used : o <= o2

NewDict(s, h) ==
    LET o == FreshObj(s, h) IN [s EXCEPT !.p.ref = o, !.heap[o] = EmptyDict]

\* rec = verified_users.get(uid, {})
GetRec(s, h, u) ==
    IF u \in DOMAIN s.vu THEN [s EXCEPT !.p.ref = s.vu[u]] ELSE NewDict(s, h)

\* rec = verified_users.get(uid, {}) or {}
GetRecOrNew(s, h, u) ==
    IF u \in DOMAIN s.vu /\ s.heap[s.vu[u]] # EmptyDict
    THEN [s EXCEPT !.p.ref = s.vu[u]]
    ELSE NewDict(s, h)

\* the dict the local variable rec refers to
Rec(s) == s.heap[s.p.ref]

\* rec[k] = v
SetKey(s, k, v) == [s EXCEPT !.heap[s.p.ref] = Put(@, k, v)]

\* verified_users[uid] = rec
Store(s, u) == [s EXCEPT !.vu = Put(s.vu, u, s.p.ref)]

Log(s, e) == [s EXCEPT !.p.log = @ \cup {e}]

Goto(s, pc) == [s EXCEPT !.p.pc = pc]

Failed(s) == [s EXCEPT !.p.failed = TRUE]

\* the handler returns
Finish(s) ==
    [s EXCEPT !.p = [IdleProc EXCEPT !.kind = s.p.kind, !.pc = "done", !.user = s.p.user,
                                      !.arg = s.p.arg, !.log = s.p.log,
                                      !.failed = s.p.failed, !.before = s.p.before,
                                      !.raidkey = s.p.raidkey, !.src = s.p.src,
                                      !.ew = s.p.ew, !.bound0 = s.p.bound0]]

\* save_verified(): the whole dict is dumped to the file
save_verified(s) ==
    Log([s EXCEPT !.disk = [u \in DOMAIN s.vu |-> s.heap[s.vu[u]]]], "write")

\* discord.utils.get(guild.roles, name=r) is not None
RoleExists(r) == r \in guild.roles

\* r in member.roles
HasRole(s, u, r) == r \in s.roles[u]

HasClass(s, u) == s.roles[u] \cap ClassSet # {}

AddRole(s, u, r) == [s EXCEPT !.roles[u] = @ \cup {r}]

RemoveRole(s, u, r) == [s EXCEPT !.roles[u] = @ \ {r}]

\* The outcomes of an awaited platform call on a member: TRUE, it succeeds.
\* A call on a member who has left the guild fails.
Outcomes(u) ==
    IF u \notin present THEN {FALSE}
    ELSE IF failBudget > 0 THEN BOOLEAN ELSE {TRUE}

\* The outcomes of an awaited send to a channel or an interaction.
SendOutcomes == IF failBudget > 0 THEN BOOLEAN ELSE {TRUE}

Spend(ok, u) ==
    failBudget' = IF ~ok /\ u \in present THEN failBudget - 1 ELSE failBudget

SpendSend(ok) == failBudget' = IF ok THEN failBudget ELSE failBudget - 1

\* ------------------------------------------------------------------------
\* check_verification: the final gate
\* ------------------------------------------------------------------------
TargetRoleName(track) == IF track = "member" THEN MEMBER_ROLE ELSE VISITOR_ROLE

OtherRoleName(track) == IF track = "member" THEN VISITOR_ROLE ELSE MEMBER_ROLE

\* track = rec.get("track", DEFAULT_TRACK); if track not in VALID_TRACKS: ...
ResolveTrack(rec) ==
    LET t == Get(rec, "track", DEFAULT_TRACK)
    IN  IF t \in VALID_TRACKS THEN t ELSE DEFAULT_TRACK

\* A gate without the anti-flip guard.
allow_promotion_always(is_newcomer, is_already_verified) == TRUE

\* A guard that lets only unverified users through.
allow_promotion_unverified(is_newcomer, is_already_verified) == ~is_already_verified

\* allow_promotion = is_newcomer or not is_already_verified
allow_promotion(is_newcomer, is_already_verified) ==
    is_newcomer \/ ~is_already_verified

\* A gate that never posts the notice.
cv_notice_silent(s) == Finish(s)

\* The channel notice: sent when the target role was added or Newcomer removed.
cv_notice(s) ==
    IF guild.onboarding /\ (s.p.added \/ s.p.removed)
    THEN Goto(Log(s, "notice"), "cv_notice")
    ELSE Finish(s)

\* A gate that saves the record on every pass and never sets the flag.
cv_persist_unflagged(s, u) == cv_notice(save_verified(Store(s, u)))

\* Persist the verified flag, then go on to the notice.
cv_persist(s, u) ==
    IF ~Get(Rec(s), "verified", FALSE)
    THEN cv_notice(save_verified(Store(SetKey(s, "verified", TRUE), u)))
    ELSE cv_notice(s)

\* Remove Newcomer if present.
cv_newcomer(s, u) ==
    IF RoleExists(NEWCOMER_ROLE) /\ HasRole(s, u, NEWCOMER_ROLE)
    THEN Goto(Log(s, "revoke_newcomer"), "cv_rm_newcomer")
    ELSE cv_persist(s, u)

\* A gate that leaves the opposite track role alone.
cv_other_keep(s, u) == cv_newcomer(s, u)

\* Ensure the opposite track role is not lingering.
cv_other(s, u) ==
    IF RoleExists(OtherRoleName(s.p.track)) /\ HasRole(s, u, OtherRoleName(s.p.track))
    THEN Goto(Log(s, "revoke_other"), "cv_rm_other")
    ELSE cv_newcomer(s, u)

\* Add the target role if missing.
cv_add(s, u) ==
    IF RoleExists(TargetRoleName(s.p.track)) /\ ~HasRole(s, u, TargetRoleName(s.p.track))
    THEN Goto(Log(s, "grant_target"), "cv_add")
    ELSE cv_other(s, u)

\* The entry of check_verification(member), up to its first await.
check_verification(s0, h, u) ==
    LET s == Log(GetRecOrNew(s0, h, u), "gate")
        rec == Rec(s)
        rules_ok == Get(rec, "rules_accepted", FALSE)
        nick_ok == Get(rec, "nickname_confirmed", FALSE)
        class_ok == Get(rec, "class_assigned", FALSE) \/ HasClass(s, u)
        is_newcomer == RoleExists(NEWCOMER_ROLE) /\ HasRole(s, u, NEWCOMER_ROLE)
        is_already_verified == Get(rec, "verified", FALSE)
    IN  IF ~(rules_ok /\ nick_ok /\ class_ok) THEN Finish(s)
        ELSE IF ~allow_promotion(is_newcomer, is_already_verified) THEN Finish(s)
        ELSE cv_add([s EXCEPT !.p.track = ResolveTrack(rec),
                              !.p.added = FALSE, !.p.removed = FALSE], u)

\* await member.add_roles(target_role) returns or raises (the error is logged).
CvAddDone(h) ==
    /\ proc[h].pc = "cv_add"
    /\ \E ok \in Outcomes(proc[h].user) :
        LET u == proc[h].user
            s == Cur(h)
            s1 == IF ok THEN [AddRole(s, u, TargetRoleName(s.p.track)) EXCEPT !.p.added = TRUE]
                  ELSE Failed(s)
        IN  Commit(h, cv_other(s1, u)) /\ Spend(ok, u)
    /\ UNCHANGED <<guild, wk_now>>

\* await member.remove_roles(other_role) returns or raises (the error is logged).
CvRmOtherDone(h) ==
    /\ proc[h].pc = "cv_rm_other"
    /\ \E ok \in Outcomes(proc[h].user) :
        LET u == proc[h].user
            s == Cur(h)
            s1 == IF ok THEN RemoveRole(s, u, OtherRoleName(s.p.track)) ELSE Failed(s)
        IN  Commit(h, cv_newcomer(s1, u)) /\ Spend(ok, u)
    /\ UNCHANGED <<guild, wk_now>>

\* await member.remove_roles(newcomer_role) returns or raises (the error is logged).
CvRmNewcomerDone(h) ==
    /\ proc[h].pc = "cv_rm_newcomer"
    /\ \E ok \in Outcomes(proc[h].user) :
        LET u == proc[h].user
            s == Cur(h)
            s1 == IF ok THEN [RemoveRole(s, u, NEWCOMER_ROLE) EXCEPT !.p.removed = TRUE]
                  ELSE Failed(s)
        IN  Commit(h, cv_persist(s1, u)) /\ Spend(ok, u)
    /\ UNCHANGED <<guild, wk_now>>

\* A notice failure that takes the promotion back.
cv_notice_rollback(s) ==
    Failed(save_verified(SetKey([s EXCEPT !.roles[s.p.user] = {NEWCOMER_ROLE}],
                                "verified", FALSE)))

\* except Exception: pass
cv_notice_failed(s) == Failed(s)

\* await onboarding_channel.send(...) returns or raises (the error is swallowed).
CvNoticeDone(h) ==
    /\ proc[h].pc = "cv_notice"
    /\ \E ok \in SendOutcomes :
        LET s == Cur(h)
        IN  Commit(h, Finish(IF ok THEN s ELSE cv_notice_failed(s))) /\ SpendSend(ok)
    /\ UNCHANGED <<guild, wk_now>>

\* A handler starts in a slot that is free.
Begin(h, kind, u, arg) ==
    LET q == proc[h]
        repeat == /\ kind \in {"fixgate", "sweep"}
                  /\ q.pc = "done" /\ q.kind = kind /\ q.user = u /\ ~q.failed
    IN  [Cur(h) EXCEPT !.p = [IdleProc EXCEPT
            !.kind = kind, !.pc = "start", !.user = u, !.arg = arg,
            !.before = IF repeat THEN q.log \cup {"repeat"} ELSE {}]]

CanStart(h) == ~InFlight(h)

\* fixgate: await check_verification(m) for a member of the guild
FixGate(h, u) ==
    /\ CanStart(h)
    /\ u \in present
    /\ Commit(h, check_verification(Begin(h, "fixgate", u, "-"), h, u))
    /\ UNCHANGED <<guild, wk_now, failBudget>>

\* ------------------------------------------------------------------------
\* VerificationView: the track buttons
\* ------------------------------------------------------------------------
\* The stored dict of a user ({} when there is none).
StoredRec(s, u) == IF u \in DOMAIN s.vu THEN s.heap[s.vu[u]] ELSE EmptyDict

\* A newness test that looks at the roles only.
is_new_user_by_roles(s, u) ==
    HasRole(s, u, NEWCOMER_ROLE)
        \/ ~(HasRole(s, u, MEMBER_ROLE) \/ HasRole(s, u, VISITOR_ROLE))

is_new_user(s, u) ==
    LET has_newcomer == HasRole(s, u, NEWCOMER_ROLE)
        has_track_role == HasRole(s, u, MEMBER_ROLE) \/ HasRole(s, u, VISITOR_ROLE)
    IN  ~Get(StoredRec(s, u), "verified", FALSE) /\ (has_newcomer \/ ~has_track_role)

set_track(s, h, u, track) ==
    LET s1 == GetRecOrNew(s, h, u)
        t == IF track \in VALID_TRACKS THEN track ELSE DEFAULT_TRACK
    IN  Log(save_verified(Store(SetKey(s1, "track", t), u)), "track")

\* choose_member_track / choose_visitor_track, up to the acknowledgement.
choose_track(s, h, u, track) ==
    IF ~is_new_user(s, u)
    THEN Finish(Log(s, "blocked"))
    ELSE Goto(set_track(s, h, u, track), "tb_ack")

\* The slot remembers in `before` the track that the press just before it,
\* by the same user, stored.
ChooseTrack(h, u, track) ==
    /\ CanStart(h)
    /\ u \in present
    /\ LET q == proc[h]
           again == /\ q.kind = "choose_track" /\ q.pc = "done"
                    /\ q.user = u /\ "track" \in q.log
           s0 == Begin(h, "choose_track", u, track)
           s1 == [s0 EXCEPT !.p.before = IF again THEN {q.arg} ELSE {}]
       IN  Commit(h, choose_track(s1, h, u, track))
    /\ UNCHANGED <<guild, wk_now, failBudget>>

\* The acknowledgement and the log embed were sent (or the acknowledgement
\* raised, which ends the handler); then check_verification(user).
TbAckDone(h) ==
    /\ proc[h].pc = "tb_ack"
    /\ \E ok \in SendOutcomes :
        LET s == Cur(h)
        IN  /\ Commit(h, IF ok THEN check_verification(s, h, s.p.user)
                         ELSE Finish(Failed(s)))
            /\ SpendSend(ok)
    /\ UNCHANGED <<guild, wk_now>>

\* ------------------------------------------------------------------------
\* VerificationView: accept_rules and confirm_nickname
\* ------------------------------------------------------------------------
flag_button(s, h, u, flag) ==
    LET s1 == GetRec(s, h, u)
    IN  IF Get(Rec(s1), "verified", FALSE)
        THEN Finish(Log(s1, "already_verified"))
        ELSE Goto(save_verified(Store(SetKey(s1, flag, TRUE), u)), "fl_ack")

accept_rules(s, h, u) == flag_button(s, h, u, "rules_accepted")

confirm_nickname(s, h, u) == flag_button(s, h, u, "nickname_confirmed")

AcceptRules(h, u) ==
    /\ CanStart(h)
    /\ u \in present
    /\ Commit(h, accept_rules(Begin(h, "accept_rules", u, "-"), h, u))
    /\ UNCHANGED <<guild, wk_now, failBudget>>

ConfirmNickname(h, u) ==
    /\ CanStart(h)
    /\ u \in present
    /\ Commit(h, confirm_nickname(Begin(h, "confirm_nickname", u, "-"), h, u))
    /\ UNCHANGED <<guild, wk_now, failBudget>>

\* An acknowledgement after which the button handler returns.
FlAckDone_no_gate(h) ==
    /\ proc[h].pc = "fl_ack"
    /\ \E ok \in SendOutcomes :
        LET s == Cur(h)
        IN  /\ Commit(h, IF ok THEN Finish(s) ELSE Finish(Failed(s)))
            /\ SpendSend(ok)
    /\ UNCHANGED <<guild, wk_now>>

FlAckDone(h) ==
    /\ proc[h].pc = "fl_ack"
    /\ \E ok \in SendOutcomes :
        LET s == Cur(h)
        IN  /\ Commit(h, IF ok THEN check_verification(s, h, s.p.user)
                         ELSE Finish(Failed(s)))
            /\ SpendSend(ok)
    /\ UNCHANGED <<guild, wk_now>>

\* ------------------------------------------------------------------------
\* Class roles: the select menu, the reaction handler, resetclass
\* ------------------------------------------------------------------------
\* The next class role of the list, from position i on, that the member holds.
NextHeld(s, u, i) ==
    LET held == {j \in i..Len(CLASS_ROLES) : HasRole(s, u, CLASS_ROLES[j])}
    IN  IF held = {} THEN 0 ELSE CHOOSE j \in held : \A k \in held : j <= k

\* ClassRoleSelect.callback: remove any existing class roles, from position i.
cs_loop(s, u, i) ==
    IF NextHeld(s, u, i) # 0
    THEN Goto(Log([s EXCEPT !.p.idx = NextHeld(s, u, i)], "revoke_class"), "cs_rm")
    ELSE Goto(Log(s, "grant_class"), "cs_add")

ClassSelect(h, u, c) ==
    /\ CanStart(h)
    /\ u \in present
    /\ Commit(h, cs_loop(Begin(h, "class_select", u, c), u, 1))
    /\ UNCHANGED <<guild, wk_now, failBudget>>

CsRmDone(h) ==
    /\ proc[h].pc = "cs_rm"
    /\ \E ok \in Outcomes(proc[h].user) :
        LET s == Cur(h)
            u == s.p.user
        IN  /\ Commit(h, IF ok
                         THEN cs_loop(RemoveRole(s, u, CLASS_ROLES[s.p.idx]), u, s.p.idx + 1)
                         ELSE Finish(Failed(s)))
            /\ Spend(ok, u)
    /\ UNCHANGED <<guild, wk_now>>

\* The selected role was added: persist class_assigned, then acknowledge.
CsAddDone(h) ==
    /\ proc[h].pc = "cs_add"
    /\ \E ok \in Outcomes(proc[h].user) :
        LET s == Cur(h)
            u == s.p.user
            s1 == GetRec(AddRole(s, u, s.p.arg), h, u)
        IN  /\ Commit(h, IF ok
                         THEN Goto(save_verified(Store(SetKey(s1, "class_assigned", TRUE), u)),
                                   "cs_ack")
                         ELSE Finish(Failed(s)))
            /\ Spend(ok, u)
    /\ UNCHANGED <<guild, wk_now>>

CsAckDone(h) ==
    /\ proc[h].pc = "cs_ack"
    /\ \E ok \in SendOutcomes :
        LET s == Cur(h)
        IN  /\ Commit(h, IF ok THEN check_verification(s, h, s.p.user)
                         ELSE Finish(Failed(s)))
            /\ SpendSend(ok)
    /\ UNCHANGED <<guild, wk_now>>

\* on_raw_reaction_add: persist class_assigned, log to the channel, then the gate.
rx_flag(s, h, u) ==
    LET s1 == GetRecOrNew(s, h, u)
        s2 == save_verified(Store(SetKey(s1, "class_assigned", TRUE), u))
    IN  IF guild.onboarding THEN Goto(s2, "rx_ack") ELSE check_verification(s2, h, u)

\* if role not in member.roles: await member.add_roles(role)
rx_add(s, h, u) ==
    IF ~HasRole(s, u, s.p.arg)
    THEN Goto(Log(s, "grant_class"), "rx_add")
    ELSE rx_flag(s, h, u)

\* Remove any existing class role to keep exactly one class, from position i.
rx_loop(s, h, u, i) ==
    IF NextHeld(s, u, i) # 0
    THEN Goto(Log([s EXCEPT !.p.idx = NextHeld(s, u, i)], "revoke_class"), "rx_rm")
    ELSE rx_add(s, h, u)

Reaction(h, u, c) ==
    /\ CanStart(h)
    /\ u \in present
    /\ Commit(h, rx_loop(Begin(h, "reaction", u, c), h, u, 1))
    /\ UNCHANGED <<guild, wk_now, failBudget>>

RxRmDone(h) ==
    /\ proc[h].pc = "rx_rm"
    /\ \E ok \in Outcomes(proc[h].user) :
        LET s == Cur(h)
            u == s.p.user
        IN  /\ Commit(h, IF ok
                         THEN rx_loop(RemoveRole(s, u, CLASS_ROLES[s.p.idx]), h, u, s.p.idx + 1)
                         ELSE Finish(Failed(s)))
            /\ Spend(ok, u)
    /\ UNCHANGED <<guild, wk_now>>

RxAddDone(h) ==
    /\ proc[h].pc = "rx_add"
    /\ \E ok \in Outcomes(proc[h].user) :
        LET s == Cur(h)
            u == s.p.user
        IN  /\ Commit(h, IF ok THEN rx_flag(AddRole(s, u, s.p.arg), h, u)
                         ELSE Finish(Failed(s)))
            /\ Spend(ok, u)
    /\ UNCHANGED <<guild, wk_now>>

RxAckDone(h) ==
    /\ proc[h].pc = "rx_ack"
    /\ \E ok \in SendOutcomes :
        LET s == Cur(h)
        IN  /\ Commit(h, IF ok THEN check_verification(s, h, s.p.user)
                         ELSE Finish(Failed(s)))
            /\ SpendSend(ok)
    /\ UNCHANGED <<guild, wk_now>>

\* A reset that replaces the record instead of clearing one flag.
rc_write_fresh(s, h, u) ==
    Finish(save_verified(Store(SetKey(NewDict(s, h), "class_assigned", FALSE), u)))

\* resetclass: after the class roles are removed, clear the persistent flag.
rc_write(s, h, u) ==
    LET s1 == GetRec(s, h, u)
    IN  Finish(save_verified(Store(SetKey(s1, "class_assigned", FALSE), u)))

rc_loop(s, h, u, i) ==
    IF NextHeld(s, u, i) # 0
    THEN Goto(Log([s EXCEPT !.p.idx = NextHeld(s, u, i)], "revoke_class"), "rc_rm")
    ELSE rc_write(s, h, u)

\* !resetclass [member] for member u. admin: the author has the administrator
\* permission; named: a member argument was given (without one the author
\* resets their own class); cooling: the call falls within 60 s of the
\* author's previous one (time is not modelled, so this is an input).
ResetClass(h, u, admin, named, cooling) ==
    /\ CanStart(h)
    /\ u \in present
    /\ LET s == Begin(h, "resetclass", u, IF admin THEN "admin" ELSE "member")
       IN  Commit(h, IF cooling THEN Finish(Log(s, "cooldown"))
                     ELSE IF named /\ ~admin THEN Finish(Log(s, "denied"))
                     ELSE rc_loop(s, h, u, 1))
    /\ UNCHANGED <<guild, wk_now, failBudget>>

\* await member.remove_roles(role) returns or raises (the error is logged).
RcRmDone(h) ==
    /\ proc[h].pc = "rc_rm"
    /\ \E ok \in Outcomes(proc[h].user) :
        LET s == Cur(h)
            u == s.p.user
            s1 == IF ok THEN RemoveRole(s, u, CLASS_ROLES[s.p.idx]) ELSE Failed(s)
        IN  Commit(h, rc_loop(s1, h, u, s.p.idx + 1)) /\ Spend(ok, u)
    /\ UNCHANGED <<guild, wk_now>>

\* ------------------------------------------------------------------------
\* retro_verify_existing_members: the reconciliation sweep
\* ------------------------------------------------------------------------
\* The track the sweep works with: the stored one, or one inferred from the roles.
InferTrack(stored, has_member, has_visitor) ==
    IF stored \in VALID_TRACKS THEN stored
    ELSE IF has_member THEN "member"
    ELSE IF has_visitor THEN "visitor"
    ELSE DEFAULT_TRACK

\* A dict that is the stored record of the user is changed in memory only.
LogMem(s, u) ==
    IF u \in DOMAIN s.vu /\ s.vu[u] = s.p.ref THEN Log(s, "memwrite") ELSE s

\* A case A that sets verified and no flag.
sweep_case_a_verified_only(s, u, has_class) ==
    save_verified(Store(SetKey(s, "verified", TRUE), u))

\* A case A that sets the flags but leaves verified as it was.
sweep_case_a_unflagged(s, u, has_class) ==
    LET s1 == SetKey(SetKey(s, "rules_accepted", TRUE), "nickname_confirmed", TRUE)
        s2 == IF has_class THEN SetKey(s1, "class_assigned", TRUE) ELSE s1
    IN  save_verified(Store(s2, u))

\* A case A that sets class_assigned whether or not a class role is held.
sweep_case_a_classed(s, u, has_class) ==
    save_verified(Store(SetKey(SetKey(SetKey(SetKey(s, "verified", TRUE),
        "rules_accepted", TRUE), "nickname_confirmed", TRUE), "class_assigned", TRUE), u))

\* Case A: the member holds the target role but the record is not verified.
sweep_case_a(s, u, has_class) ==
    LET s1 == SetKey(SetKey(SetKey(s, "verified", TRUE), "rules_accepted", TRUE),
                     "nickname_confirmed", TRUE)
        s2 == IF has_class THEN SetKey(s1, "class_assigned", TRUE) ELSE s1
    IN  save_verified(Store(s2, u))

RECURSIVE sweep_members(_, _)
\* The loop over guild.members, up to the next await.
sweep_members(s0, h) ==
    IF s0.p.todo = {} THEN Finish([s0 EXCEPT !.p.user = "-"])
    ELSE
    LET m == CHOOSE x \in s0.p.todo : TRUE
        s1 == GetRecOrNew([s0 EXCEPT !.p.todo = @ \ {m}, !.p.user = m], h, m)
        has_member == RoleExists(MEMBER_ROLE) /\ HasRole(s1, m, MEMBER_ROLE)
        has_visitor == RoleExists(VISITOR_ROLE) /\ HasRole(s1, m, VISITOR_ROLE)
        has_newcomer == RoleExists(NEWCOMER_ROLE) /\ HasRole(s1, m, NEWCOMER_ROLE)
        has_class == HasClass(s1, m)
        stored == Get(Rec(s1), "track", "-")
        track == InferTrack(stored, has_member, has_visitor)
        s2 == IF stored \notin VALID_TRACKS
              THEN LogMem(SetKey(s1, "track", track), m) ELSE s1
        s3 == [s2 EXCEPT !.p.track = track, !.p.has_newcomer = has_newcomer]
        target == TargetRoleName(track)
        has_target == RoleExists(target) /\ HasRole(s3, m, target)
        verified == Get(Rec(s3), "verified", FALSE)
    IN  IF has_target /\ ~verified
        THEN LET sa == sweep_case_a(s3, m, has_class)
             IN  IF has_newcomer
                 THEN Goto(Log(sa, "revoke_newcomer"), "sw_a_rm")
                 ELSE sweep_members(sa, h)
        ELSE IF verified /\ ~has_target /\ RoleExists(target)
        THEN Goto(Log(s3, "grant_target"), "sw_b_add")
        ELSE IF verified /\ has_newcomer
        THEN Goto(Log(s3, "revoke_newcomer"), "sw_c_rm")
        ELSE sweep_members(s3, h)

\* A sweep that gives up when Guild Member is not a role of the guild.
retro_verify_strict(s, h) ==
    IF ~RoleExists(MEMBER_ROLE) THEN Finish(s) ELSE sweep_members(s, h)

\* The entry of the sweep: missing track roles are logged, then the loop runs.
retro_verify(s, h) == sweep_members(s, h)

RetroVerify(h) ==
    /\ CanStart(h)
    /\ Commit(h, retro_verify([Begin(h, "sweep", "-", "-") EXCEPT !.p.todo = present], h))
    /\ UNCHANGED <<guild, wk_now, failBudget>>

\* Cases A and C: await m.remove_roles(newcomer_role), then the next member.
SwRmDone(h) ==
    /\ proc[h].pc \in {"sw_a_rm", "sw_b_rm", "sw_c_rm"}
    /\ \E ok \in Outcomes(proc[h].user) :
        LET s == Cur(h)
            u == s.p.user
            s1 == IF ok THEN RemoveRole(s, u, NEWCOMER_ROLE) ELSE Failed(s)
        IN  Commit(h, sweep_members(s1, h)) /\ Spend(ok, u)
    /\ UNCHANGED <<guild, wk_now>>

\* A case B that grants the target role and leaves Newcomer in place.
SwAddDone_keep(h) ==
    /\ proc[h].pc = "sw_b_add"
    /\ \E ok \in Outcomes(proc[h].user) :
        LET s == Cur(h)
            u == s.p.user
            s1 == IF ok THEN AddRole(s, u, TargetRoleName(s.p.track)) ELSE Failed(s)
        IN  Commit(h, sweep_members(s1, h)) /\ Spend(ok, u)
    /\ UNCHANGED <<guild, wk_now>>

\* Case B: await m.add_roles(target_role), then strip Newcomer if it was held.
SwAddDone(h) ==
    /\ proc[h].pc = "sw_b_add"
    /\ \E ok \in Outcomes(proc[h].user) :
        LET s == Cur(h)
            u == s.p.user
            s1 == IF ok THEN AddRole(s, u, TargetRoleName(s.p.track)) ELSE Failed(s)
        IN  /\ Commit(h, IF s.p.has_newcomer
                         THEN Goto(Log(s1, "revoke_newcomer"), "sw_b_rm")
                         ELSE sweep_members(s1, h))
            /\ Spend(ok, u)
    /\ UNCHANGED <<guild, wk_now>>

\* on_ready: the gateway reports the session ready, at startup and again after
\* a reconnect; the handler awaits the sweep of the guild.
OnReady(h) ==
    /\ CanStart(h)
    /\ Commit(h, retro_verify([Begin(h, "on_ready", "-", "-") EXCEPT !.p.todo = present], h))
    /\ UNCHANGED <<guild, wk_now, failBudget>>

\* on_ready has been dispatched.
ReadySeen == \E h \in Handlers : proc[h].kind = "on_ready"

\* ------------------------------------------------------------------------
\* auditsnapshot: the prepass that sets the stored flags of Guild Members
\* ------------------------------------------------------------------------
RECURSIVE snapshot_prepass(_, _, _, _)
snapshot_prepass(s0, h, todo, changed) ==
    IF todo = {} THEN (IF changed THEN save_verified(s0) ELSE s0)
    ELSE
    LET m == CHOOSE x \in todo : TRUE
        s1 == GetRecOrNew(s0, h, m)
        need_rules == ~Get(Rec(s1), "rules_accepted", FALSE)
        need_nick == ~Get(Rec(s1), "nickname_confirmed", FALSE)
        s2 == IF need_rules THEN SetKey(s1, "rules_accepted", TRUE) ELSE s1
        s3 == IF need_nick THEN SetKey(s2, "nickname_confirmed", TRUE) ELSE s2
    IN  IF RoleExists(MEMBER_ROLE) /\ HasRole(s0, m, MEMBER_ROLE) /\ (need_rules \/ need_nick)
        THEN snapshot_prepass(Store(s3, m), h, todo \ {m}, TRUE)
        ELSE snapshot_prepass(s0, h, todo \ {m}, changed)

AuditSnapshot(h) ==
    /\ CanStart(h)
    /\ Commit(h, Finish(snapshot_prepass(Begin(h, "auditsnapshot", "-", "-"), h, present, FALSE)))
    /\ UNCHANGED <<guild, wk_now, failBudget>>

\* ------------------------------------------------------------------------
\* on_member_remove and on_member_join
\* ------------------------------------------------------------------------
on_member_remove(s, u) ==
    IF u \in DOMAIN s.vu
    THEN Finish(save_verified([s EXCEPT !.vu = Del(s.vu, u)]))
    ELSE Finish(s)

\* The member leaves the guild (and loses every role); the bot handles the event.
MemberRemove(h, u) ==
    /\ CanStart(h)
    /\ u \in present
    /\ Commit(h, on_member_remove(
                    [Begin(h, "on_member_remove", u, "-") EXCEPT
                        !.present = @ \ {u}, !.roles[u] = {}], u))
    /\ UNCHANGED <<guild, wk_now, failBudget>>

\* if newcomer_role and newcomer_role in member.roles: remove it (rejoin cleanup)
jn_cleanup(s, u) ==
    IF RoleExists(NEWCOMER_ROLE) /\ HasRole(s, u, NEWCOMER_ROLE)
    THEN Goto(Log(s, "revoke_newcomer"), "jn_rm")
    ELSE Finish(s)

on_member_join(s, u) ==
    LET record == StoredRec(s, u)
        track == Get(record, "track", DEFAULT_TRACK)
    IN  IF Get(record, "verified", FALSE)
        THEN IF RoleExists(TargetRoleName(track))
             THEN Goto(Log([s EXCEPT !.p.track = track], "grant_target"), "jn_add")
             ELSE jn_cleanup(s, u)
        ELSE IF RoleExists(NEWCOMER_ROLE)
             THEN Goto(Log(s, "grant_newcomer"), "jn_newcomer")
             ELSE Finish(s)

\* The user joins the guild, holding no role; the bot handles the event.
MemberJoin(h, u) ==
    /\ CanStart(h)
    /\ u \notin present
    /\ Commit(h, on_member_join(
                    [Begin(h, "on_member_join", u, "-") EXCEPT
                        !.present = @ \cup {u}, !.roles[u] = {}], u))
    /\ UNCHANGED <<guild, wk_now, failBudget>>

JnAddDone(h) ==
    /\ proc[h].pc = "jn_add"
    /\ \E ok \in Outcomes(proc[h].user) :
        LET s == Cur(h)
            u == s.p.user
            s1 == IF ok THEN AddRole(s, u, TargetRoleName(s.p.track)) ELSE Failed(s)
        IN  Commit(h, jn_cleanup(s1, u)) /\ Spend(ok, u)
    /\ UNCHANGED <<guild, wk_now>>

JnRmDone(h) ==
    /\ proc[h].pc = "jn_rm"
    /\ \E ok \in Outcomes(proc[h].user) :
        LET s == Cur(h)
            u == s.p.user
            s1 == IF ok THEN RemoveRole(s, u, NEWCOMER_ROLE) ELSE Failed(s)
        IN  Commit(h, Finish(s1)) /\ Spend(ok, u)
    /\ UNCHANGED <<guild, wk_now>>

JnNewcomerDone(h) ==
    /\ proc[h].pc = "jn_newcomer"
    /\ \E ok \in Outcomes(proc[h].user) :
        LET s == Cur(h)
            u == s.p.user
            s1 == IF ok THEN AddRole(s, u, NEWCOMER_ROLE) ELSE Failed(s)
        IN  Commit(h, Finish(s1)) /\ Spend(ok, u)
    /\ UNCHANGED <<guild, wk_now>>

\* ------------------------------------------------------------------------
\* CurrentWeekRaidMirror: one mirrored message per raid key, for the current week
\* ------------------------------------------------------------------------
\* A binding of state["mirrors"].
Binding(src, d) == [source_msg_id |-> src, dest_msg_id |-> d]

\* The outcomes of an awaited call on message d of the destination channel:
\* TRUE, it succeeds; FALSE, it raises (NotFound when the message is gone).
MsgOutcomes(d) == IF d \in DOMAIN messages THEN SendOutcomes ELSE {FALSE}

SpendMsg(ok, d) ==
    failBudget' = IF ~ok /\ d \in DOMAIN messages THEN failBudget - 1 ELSE failBudget

\* _save_state(self.state)
save_state(s) == Log([s EXCEPT !.sd = s.st], "save")

\* A scan that takes the oldest message that carries an embed.
FoundIn_oldest(msgs) ==
    LET es == SelectSeq(msgs, LAMBDA m : m.embed)
    IN  IF es = << >> THEN NoMsg ELSE es[1].id

\* found: the newest of the channel's messages that carries an embed.
FoundIn(msgs) ==
    LET es == SelectSeq(msgs, LAMBDA m : m.embed)
    IN  IF es = << >> THEN NoMsg ELSE es[Len(es)].id

RECURSIVE rf_loop(_)

\* _post_or_replace has returned: to on_message_create, which ends, or to
\* the loop of refresh_all_mirrors.
after_post(s) == IF s.p.kind = "refresh" THEN rf_loop(s) ELSE Finish(s)

\* sent = await dest.send(embed=emb) is awaited.
pr_send(s) == Goto(Log(s, "send"), "pr_send")

\* A replacement that sends without looking for the message it replaces.
post_or_replace_blind(s) ==
    IF ~s.p.embed \/ ~guild.dest THEN after_post(s) ELSE pr_send(s)

\* _post_or_replace, up to its first await.
post_or_replace(s) ==
    LET k == s.p.raidkey
    IN  IF ~s.p.embed \/ ~guild.dest THEN after_post(s)
        ELSE IF k \in DOMAIN s.st.mirrors
        THEN Goto([s EXCEPT !.p.existing = s.st.mirrors[k].dest_msg_id], "pr_fetch")
        ELSE pr_send(s)

\* refresh_all_mirrors: the loop over SOURCE_CHANNELS, up to the next await.
rf_loop(s) ==
    IF s.p.idx > Len(RaidKeyList) THEN Finish(s)
    ELSE LET k == RaidKeyList[s.p.idx]
             found == FoundIn(s.source[k])
             s1 == [s EXCEPT !.p.idx = @ + 1]
         IN  IF found = NoMsg THEN rf_loop(s1)
             ELSE post_or_replace([s1 EXCEPT !.p.raidkey = k, !.p.src = found,
                                             !.p.embed = TRUE])

\* An update that replaces the mirrored message as a create event does.
update_mirror_replace(s) ==
    IF s.p.raidkey \notin DOMAIN s.st.mirrors THEN Finish(s) ELSE post_or_replace(s)

\* _update_mirror, up to its first await.
update_mirror(s) ==
    LET k == s.p.raidkey
    IN  IF k \notin DOMAIN s.st.mirrors \/ ~s.p.embed \/ ~guild.dest THEN Finish(s)
        ELSE Goto([s EXCEPT !.p.existing = s.st.mirrors[k].dest_msg_id], "um_fetch")

\* _ensure_week has returned to the handler that called it.
after_week(s) ==
    IF s.p.kind = "on_message_edit" THEN update_mirror(s)
    ELSE IF s.p.kind = "refresh" THEN rf_loop(s)
    ELSE post_or_replace(s)

\* A reset that forgets the week's bindings but keeps the old week key.
ew_reset_same_week(s) ==
    after_week(save_state([s EXCEPT !.st = [week_key |-> s.st.week_key, mirrors |-> EmptyDict],
                                    !.p.ew = "reset", !.p.purge = << >>]))

\* self.state = {"week_key": wk_now, "mirrors": {}}; _save_state(self.state)
ew_reset(s) ==
    after_week(save_state([s EXCEPT !.st = [week_key |-> s.p.wk, mirrors |-> EmptyDict],
                                    !.p.ew = "reset", !.p.purge = << >>]))

\* The loop over the bindings, up to the next await.
ew_loop(s) == IF s.p.purge = << >> THEN ew_reset(s) ELSE Goto(s, "ew_fetch")

\* list(self.state["mirrors"].values()): the destination ids, in raid key order
BoundIds(mirrors) ==
    LET ks == SelectSeq(RaidKeyList, LAMBDA k : k \in DOMAIN mirrors)
    IN  [i \in 1..Len(ks) |-> mirrors[ks[i]].dest_msg_id]

\* A purge that deletes nothing.
PurgeList_none(mirrors) == << >>

\* The messages _ensure_week sets out to delete.
PurgeList(mirrors) == IF guild.dest THEN BoundIds(mirrors) ELSE << >>

\* _ensure_week, up to its first await.
ensure_week(s) ==
    IF s.st.week_key = wk_now THEN after_week([s EXCEPT !.p.ew = "same"])
    ELSE ew_loop([s EXCEPT !.p.wk = wk_now,
                           !.p.bound0 = Range(BoundIds(s.st.mirrors)),
                           !.p.purge = PurgeList(s.st.mirrors)])

\* msg = await dest.fetch_message(dest_id) returns or raises (the binding is skipped).
EwFetchDone(h) ==
    /\ proc[h].pc = "ew_fetch"
    /\ \E ok \in MsgOutcomes(Head(proc[h].purge)) :
        LET s == Cur(h)
        IN  /\ Commit(h, IF ok THEN Goto(s, "ew_delete")
                         ELSE ew_loop([s EXCEPT !.p.purge = Tail(@)]))
            /\ SpendMsg(ok, Head(proc[h].purge))
    /\ UNCHANGED <<guild, wk_now>>

\* await msg.delete() returns or raises; then the next binding.
EwDeleteDone(h) ==
    /\ proc[h].pc = "ew_delete"
    /\ \E ok \in MsgOutcomes(Head(proc[h].purge)) :
        LET s == Cur(h)
            d == Head(s.p.purge)
            s1 == IF ok THEN Log([s EXCEPT !.messages = Del(@, d)], "delete") ELSE s
        IN  /\ Commit(h, ew_loop([s1 EXCEPT !.p.purge = Tail(@)]))
            /\ SpendMsg(ok, d)
    /\ UNCHANGED <<guild, wk_now>>

\* old = await dest.fetch_message(existing["dest_msg_id"]) returns or raises.
PrFetchDone(h) ==
    /\ proc[h].pc = "pr_fetch"
    /\ \E ok \in MsgOutcomes(proc[h].existing) :
        LET s == Cur(h)
        IN  /\ Commit(h, IF ok THEN Goto(s, "pr_delete") ELSE pr_send(s))
            /\ SpendMsg(ok, proc[h].existing)
    /\ UNCHANGED <<guild, wk_now>>

\* await old.delete() returns or raises; then the send.
PrDeleteDone(h) ==
    /\ proc[h].pc = "pr_delete"
    /\ \E ok \in MsgOutcomes(proc[h].existing) :
        LET s == Cur(h)
            d == s.p.existing
            s1 == IF ok THEN Log([s EXCEPT !.messages = Del(@, d)], "delete") ELSE s
        IN  /\ Commit(h, pr_send(s1))
            /\ SpendMsg(ok, d)
    /\ UNCHANGED <<guild, wk_now>>

\* A send whose message is bound nowhere.
pr_bind_unbound(s) ==
    LET k == s.p.raidkey
        d == Len(s.sent) + 1
    IN  [s EXCEPT !.messages = Put(@, d, [raidkey |-> k, src |-> s.p.src,
                                          week |-> wk_now]),
                  !.sent = Append(@, [raidkey |-> k, week |-> wk_now])]

\* The send returns: the binding is stored in self.state and saved.  When the
\* send raises, the exception ends the handler.
\* The message was sent: state["mirrors"][raid_key] is bound to it.
pr_bind(s) ==
    LET k == s.p.raidkey
        d == Len(s.sent) + 1
    IN  [s EXCEPT !.messages = Put(@, d, [raidkey |-> k, src |-> s.p.src,
                                          week |-> wk_now]),
                  !.sent = Append(@, [raidkey |-> k, week |-> wk_now]),
                  !.st.mirrors = Put(@, k, Binding(s.p.src, d))]

PrSendDone(h) ==
    /\ proc[h].pc = "pr_send"
    /\ \E ok \in SendOutcomes :
        LET s == Cur(h)
        IN  /\ Commit(h, IF ok THEN after_post(Log(save_state(pr_bind(s)), "bind"))
                         ELSE Finish(Failed(s)))
            /\ SpendSend(ok)
    /\ UNCHANGED <<guild, wk_now>>

\* mirror_msg = await dest.fetch_message(stored["dest_msg_id"]) returns, raises
\* NotFound (the binding is dropped) or raises something else.
UmFetchDone(h) ==
    /\ proc[h].pc = "um_fetch"
    /\ \E ok \in MsgOutcomes(proc[h].existing) :
        LET s == Cur(h)
            k == s.p.raidkey
            gone == s.p.existing \notin DOMAIN s.messages
            s1 == [s EXCEPT !.st.mirrors = IF k \in DOMAIN @ THEN Del(@, k) ELSE @]
        IN  /\ Commit(h, IF ok THEN Goto(s, "um_edit")
                         ELSE IF gone THEN Finish(Log(save_state(s1), "unbind"))
                         ELSE Finish(Failed(s)))
            /\ SpendMsg(ok, proc[h].existing)
    /\ UNCHANGED <<guild, wk_now>>

\* await mirror_msg.edit(embed=emb) returns or raises.
UmEditDone(h) ==
    /\ proc[h].pc = "um_edit"
    /\ \E ok \in MsgOutcomes(proc[h].existing) :
        LET s == Cur(h)
            s1 == IF ok THEN Log([s EXCEPT !.messages[s.p.existing].src = s.p.src], "edit")
                  ELSE s
        IN  /\ Commit(h, Finish(s1))
            /\ SpendMsg(ok, proc[h].existing)
    /\ UNCHANGED <<guild, wk_now>>

\* The ids of the messages posted to the source channels so far.
SourceIds == UNION {{source[k][i].id : i \in DOMAIN source[k]} : k \in RaidKeys}

\* on_message: a message, with an embed or without, is posted to the source
\* channel of raid key k.
MessageCreate(h, k, embed) ==
    /\ CanStart(h)
    /\ Cardinality(SourceIds) < MaxSrc
    /\ LET id == Cardinality(SourceIds) + 1
           s == [Begin(h, "on_message_create", "-", "-") EXCEPT
                    !.source[k] = Append(@, [id |-> id, embed |-> embed]),
                    !.p.raidkey = k, !.p.src = id, !.p.embed = embed]
       IN  Commit(h, IF ~embed THEN Finish(s) ELSE ensure_week(s))
    /\ UNCHANGED <<guild, wk_now, failBudget>>

\* on_message_edit: message i of the source channel of raid key k is edited;
\* after the edit it has an embed or has none.
MessageEdit(h, k, i, embed) ==
    /\ CanStart(h)
    /\ i \in DOMAIN source[k]
    /\ LET s == [Begin(h, "on_message_edit", "-", "-") EXCEPT
                    !.source[k][i].embed = embed,
                    !.p.raidkey = k, !.p.src = source[k][i].id, !.p.embed = embed]
       IN  Commit(h, IF ~embed THEN Finish(s) ELSE ensure_week(s))
    /\ UNCHANGED <<guild, wk_now, failBudget>>

\* on_message for a message the handler has seen before: the create event of
\* message i of the source channel of raid key k is delivered again.  arg
\* records whether the message was then the bound source of the raid key
\* under the current week key.
MessageRedelivered(h, k, i) ==
    /\ CanStart(h)
    /\ i \in DOMAIN source[k]
    /\ Len(sent) < MaxDest
    /\ LET msg == source[k][i]
           bound == /\ state.week_key = wk_now
                    /\ k \in DOMAIN state.mirrors
                    /\ state.mirrors[k].source_msg_id = msg.id
           s == [Begin(h, "on_message_create", "-", IF bound THEN "bound" ELSE "-") EXCEPT
                    !.p.raidkey = k, !.p.src = msg.id, !.p.embed = msg.embed]
       IN  Commit(h, IF ~msg.embed THEN Finish(s) ELSE ensure_week(s))
    /\ UNCHANGED <<guild, wk_now, failBudget>>

\* refresh_all_mirrors(guild), awaited by on_ready and by refreshraids.
RefreshMirrors(h) ==
    /\ CanStart(h)
    /\ Len(sent) < MaxDest
    /\ Commit(h, ensure_week([Begin(h, "refresh", "-", "-") EXCEPT !.p.idx = 1]))
    /\ UNCHANGED <<guild, wk_now, failBudget>>

\* _post_or_replace(guild, raidkey, source_msg) called on its own, with a
\* source message i that carries an embed or carries none.  bound0 records
\* the destination message bound to the raid key at the call.
PostOrReplace(h, k, i, embed) ==
    /\ CanStart(h)
    /\ Len(sent) < MaxDest
    /\ LET s == [Begin(h, "post_or_replace", "-", IF embed THEN "embed" ELSE "plain") EXCEPT
                    !.p.raidkey = k, !.p.src = i, !.p.embed = embed,
                    !.p.bound0 = IF k \in DOMAIN state.mirrors
                                 THEN {state.mirrors[k].dest_msg_id} ELSE {}]
       IN  Commit(h, post_or_replace(s))
    /\ UNCHANGED <<guild, wk_now, failBudget>>

\* The environment: a new ISO week begins.
Tick ==
    /\ Quiet
    /\ wk_now < MaxWeek
    /\ wk_now' = wk_now + 1
    /\ proc' = [h \in Handlers |-> IdleProc]
    /\ UNCHANGED <<verified_users, heap, disk, roles, present, guild, failBudget,
                   state, state_disk, messages, sent, source>>

\* The environment: somebody deletes a message of the destination channel.
AdminDelete(d) ==
    /\ Quiet
    /\ d \in DOMAIN messages
    /\ messages' = Del(messages, d)
    /\ proc' = [h \in Handlers |-> IdleProc]
    /\ UNCHANGED <<verified_users, heap, disk, roles, present, guild, failBudget,
                   state, state_disk, sent, source, wk_now>>

\* ------------------------------------------------------------------------
\* The environment: an administrator edits a member's roles by hand
\* ------------------------------------------------------------------------
AdminEdit(u, r) ==
    /\ Quiet
    /\ u \in present
    /\ r \in guild.roles
    /\ roles' = [roles EXCEPT ![u] = IF r \in @ THEN @ \ {r} ELSE @ \cup {r}]
    /\ proc' = [h \in Handlers |-> IdleProc]
    /\ UNCHANGED <<verified_users, heap, disk, present, guild, failBudget,
                   state, state_disk, messages, sent, source, wk_now>>

\* ------------------------------------------------------------------------
\* Initial states
\* ------------------------------------------------------------------------
\* The dicts the bot writes to verified_users.json: a key is absent ("-") or
\* holds a value the code stores ({"verified": false} is a normalized legacy entry).
Opt(k, x) ==
    IF x = "-" THEN EmptyDict
    ELSE IF x = "T" THEN k :> TRUE
    ELSE IF x = "F" THEN k :> FALSE
    ELSE k :> x

InitDicts ==
    {Opt("track", t) @@ Opt("rules_accepted", r) @@ Opt("nickname_confirmed", n)
        @@ Opt("class_assigned", c) @@ Opt("verified", v) :
        t \in {"-", "member", "visitor"}, r \in {"-", "T"}, n \in {"-", "T"},
        c \in {"-", "F", "T"}, v \in {"-", "F", "T"}}

GuildConfigs == [roles : SUBSET TrackRoles, onboarding : BOOLEAN, dest : {TRUE}]

\* _load_state() when raid_mirror_state.json does not exist
NoState == [week_key |-> 0, mirrors |-> EmptyDict]

\* The bot starts with no mirror state and an empty destination channel.
InitMirror ==
    /\ state = NoState
    /\ state_disk = NoState
    /\ messages = EmptyDict
    /\ sent = << >>
    /\ source = [k \in RaidKeys |-> << >>]
    /\ wk_now = 1

UserObj(u) == CHOOSE i \in 1..Len(UserList) : UserList[i] = u

\* The records were loaded from the file: memory and file agree.
LoadedRecords(f) ==
    /\ verified_users = [u \in DOMAIN f |-> UserObj(u)]
    /\ heap = [o \in ObjIds |->
                IF \E u \in DOMAIN f : UserObj(u) = o
                THEN f[CHOOSE u \in DOMAIN f : UserObj(u) = o] ELSE EmptyDict]
    /\ disk = f

\* ------------------------------------------------------------------------
\* The process stops inside a save, and starts again
\* ------------------------------------------------------------------------
\* _safe_save_json: open(path, "w") empties the file, then json.dump writes
\* the document piece by piece. A file left in between holds a prefix of the
\* document, which is no JSON document.
Truncated == "truncated" :> TRUE

\* What the file holds when the process stops at some point of the save:
\* before open(), between open() and the last write, or after it.
SaveCuts(old, new) == {old, Truncated, new}

\* No process: nothing runs, and what was in memory is gone.
StoppedProc == [IdleProc EXCEPT !.kind = "stopped", !.pc = "stopped"]

Stopped == \A h \in Handlers : proc[h].pc = "stopped"

\* The process stops inside save_verified() of accept_rules / confirm_nickname.
StopInSaveVerified(h, u, flag) ==
    /\ CanStart(h)
    /\ u \in present
    /\ LET s1 == flag_button(Begin(h, "stopped", u, "-"), h, u, flag)
       IN  /\ "write" \in s1.p.log
           /\ disk' \in SaveCuts(disk, s1.disk)
    /\ proc' = [g \in Handlers |-> StoppedProc]
    /\ verified_users' = EmptyDict
    /\ heap' = [o \in ObjIds |-> EmptyDict]
    /\ state' = NoState
    /\ UNCHANGED <<roles, present, guild, failBudget, state_disk, messages, sent,
                   source, wk_now>>

\* The process stops inside _save_state() of _post_or_replace, after the send.
StopInSaveState(h) ==
    /\ proc[h].pc = "pr_send"
    /\ LET s1 == save_state(pr_bind(Cur(h)))
       IN  /\ state_disk' \in SaveCuts(state_disk, s1.sd)
           /\ messages' = s1.messages
           /\ sent' = s1.sent
    /\ proc' = [g \in Handlers |-> StoppedProc]
    /\ verified_users' = EmptyDict
    /\ heap' = [o \in ObjIds |-> EmptyDict]
    /\ state' = NoState
    /\ UNCHANGED <<roles, present, guild, failBudget, disk, source, wk_now>>

\* The process stops while a handler is suspended at an await.
Stop ==
    /\ \E h \in Handlers : InFlight(h) /\ proc[h].pc # "stopped"
    /\ proc' = [g \in Handlers |-> StoppedProc]
    /\ verified_users' = EmptyDict
    /\ heap' = [o \in ObjIds |-> EmptyDict]
    /\ state' = NoState
    /\ UNCHANGED <<roles, present, guild, failBudget, disk, state_disk, messages,
                   sent, source, wk_now>>

\* The process starts: _safe_load_json and _load_state return the default
\* when json.load raises, and leave the file as it is.
Restart ==
    /\ Stopped
    /\ LET f == IF disk = Truncated THEN EmptyDict ELSE disk
       IN  /\ verified_users' = [u \in DOMAIN f |-> UserObj(u)]
           /\ heap' = [o \in ObjIds |->
                        IF \E u \in DOMAIN f : UserObj(u) = o
                        THEN f[CHOOSE u \in DOMAIN f : UserObj(u) = o] ELSE EmptyDict]
    /\ state' = IF state_disk = Truncated THEN NoState ELSE state_disk
    /\ proc' = [g \in Handlers |-> IdleProc]
    /\ UNCHANGED <<roles, present, guild, failBudget, disk, state_disk, messages,
                   sent, source, wk_now>>

\* Every stored record, every live role set, every guild configuration.
InitAny ==
    /\ guild \in GuildConfigs
    /\ present = Users
    /\ roles \in [Users -> SUBSET (guild.roles \cup ClassSet)]
    /\ \E D \in SUBSET Users : \E f \in [D -> InitDicts] : LoadedRecords(f)
    /\ proc = [h \in Handlers |-> IdleProc]
    /\ failBudget = 0
    /\ InitMirror

\* A guild that has the three onboarding roles; a member holds at most one class role.
\* A user who left while the bot was down is absent and may still have a record.
InitGuild ==
    /\ guild \in [roles : {TrackRoles}, onboarding : BOOLEAN, dest : {TRUE}]
    /\ present \in {Users, {}}
    /\ roles \in [Users -> {R \in SUBSET (TrackRoles \cup ClassSet) :
                              Cardinality(R \cap ClassSet) <= 1}]
    /\ \A u \in Users \ present : roles[u] = {}
    /\ \E D \in SUBSET Users : \E f \in [D -> InitDicts] : LoadedRecords(f)
    /\ proc = [h \in Handlers |-> IdleProc]
    /\ failBudget = 0
    /\ InitMirror

\* The blocks of check_verification after its entry.
GateSteps(h) ==
    \/ CvAddDone(h)
    \/ CvRmOtherDone(h)
    \/ CvRmNewcomerDone(h)
    \/ CvNoticeDone(h)

\* The blocks of the sweep after its entry.
SweepSteps(h) ==
    \/ SwRmDone(h)
    \/ SwAddDone(h)

\* The handlers run one at a time, in slot h1.
Init == InitGuild

Next ==
    \/ \E u \in Users : FixGate("h1", u)
    \/ \E u \in Users, t \in VALID_TRACKS : ChooseTrack("h1", u, t)
    \/ \E u \in Users : AcceptRules("h1", u)
    \/ \E u \in Users : ConfirmNickname("h1", u)
    \/ \E u \in Users, c \in ClassSet : ClassSelect("h1", u, c)
    \/ \E u \in Users, c \in ClassSet : Reaction("h1", u, c)
    \/ \E u \in Users, admin, named, cooling \in BOOLEAN :
            ResetClass("h1", u, admin, named, cooling)
    \/ RetroVerify("h1")
    \/ AuditSnapshot("h1")
    \/ \E u \in Users : MemberRemove("h1", u)
    \/ \E u \in Users : MemberJoin("h1", u)
    \/ GateSteps("h1")
    \/ SweepSteps("h1")
    \/ TbAckDone("h1")
    \/ FlAckDone("h1")
    \/ CsRmDone("h1")
    \/ CsAddDone("h1")
    \/ CsAckDone("h1")
    \/ RxRmDone("h1")
    \/ RxAddDone("h1")
    \/ RxAckDone("h1")
    \/ RcRmDone("h1")
    \/ JnAddDone("h1")
    \/ JnNewcomerDone("h1")
    \/ \E u \in Users, r \in TrackRoles : AdminEdit(u, r)

Spec == Init /\ [][Next]_vars

\* check_verification run for a member, again and again, from any state.
NextGateTwice ==
    \/ \E u \in Users : FixGate("h1", u)
    \/ GateSteps("h1")

SpecGateTwice == InitAny /\ [][NextGateTwice]_vars

\* The sweep run again and again, from any state.
NextSweepTwice ==
    \/ RetroVerify("h1")
    \/ SweepSteps("h1")

SpecSweepTwice == InitAny /\ [][NextSweepTwice]_vars

\* The blocks of the mirror handlers after their entry.
MirrorSteps(h) ==
    \/ EwFetchDone(h)
    \/ EwDeleteDone(h)
    \/ PrFetchDone(h)
    \/ PrDeleteDone(h)
    \/ PrSendDone(h)
    \/ UmFetchDone(h)
    \/ UmEditDone(h)

\* The mirror of a bot that has just been set up; nobody is being onboarded.
InitRaids ==
    /\ guild \in [roles : {TrackRoles}, onboarding : {TRUE}, dest : BOOLEAN]
    /\ present = Users
    /\ roles = [u \in Users |-> {}]
    /\ LoadedRecords(EmptyDict)
    /\ proc = [h \in Handlers |-> IdleProc]
    /\ failBudget = 0
    /\ InitMirror

\* The mirror handlers run one at a time, in slot h1.
NextMirror ==
    \/ \E k \in RaidKeys, e \in BOOLEAN : MessageCreate("h1", k, e)
    \/ \E k \in RaidKeys, i \in 1..MaxSrc, e \in BOOLEAN : MessageEdit("h1", k, i, e)
    \/ MirrorSteps("h1")
    \/ Tick
    \/ \E d \in 1..MaxSrc : AdminDelete(d)

SpecMirror == InitRaids /\ [][NextMirror]_vars

\* _post_or_replace called again and again, one call at a time; destination
\* messages are deleted by hand in between.
NextPost ==
    \/ \E k \in RaidKeys, i \in 1..MaxSrc, e \in BOOLEAN : PostOrReplace("h1", k, i, e)
    \/ PrFetchDone("h1")
    \/ PrDeleteDone("h1")
    \/ PrSendDone("h1")
    \/ \E d \in 1..MaxDest : AdminDelete(d)

SpecPost == InitRaids /\ [][NextPost]_vars

\* refresh_all_mirrors run between create events and week changes, one
\* handler at a time.
NextRefresh ==
    \/ \E k \in RaidKeys, e \in BOOLEAN : MessageCreate("h1", k, e)
    \/ RefreshMirrors("h1")
    \/ EwFetchDone("h1")
    \/ EwDeleteDone("h1")
    \/ PrFetchDone("h1")
    \/ PrDeleteDone("h1")
    \/ PrSendDone("h1")
    \/ Tick

SpecRefresh == InitRaids /\ [][NextRefresh]_vars

\* Message-create events handled concurrently.
NextMirrorRace ==
    \/ \E h \in Handlers :
        \/ \E k \in RaidKeys : MessageCreate(h, k, TRUE)
        \/ EwFetchDone(h)
        \/ EwDeleteDone(h)
        \/ PrFetchDone(h)
        \/ PrDeleteDone(h)
        \/ PrSendDone(h)
    \/ Tick

SpecMirrorRace == InitRaids /\ [][NextMirrorRace]_vars

\* Create and edit events handled concurrently, across week changes.
NextWeekRace ==
    \/ \E h \in Handlers :
        \/ \E k \in RaidKeys : MessageCreate(h, k, TRUE)
        \/ \E k \in RaidKeys, i \in 1..MaxSrc : MessageEdit(h, k, i, TRUE)
        \/ MirrorSteps(h)
    \/ Tick

SpecWeekRace == InitRaids /\ [][NextWeekRace]_vars

\* Create events, some delivered more than once, handled one at a time.
NextMirrorDup ==
    \/ \E k \in RaidKeys : MessageCreate("h1", k, TRUE)
    \/ \E k \in RaidKeys, i \in 1..MaxSrc : MessageRedelivered("h1", k, i)
    \/ Tick
    \/ EwFetchDone("h1")
    \/ EwDeleteDone("h1")
    \/ PrFetchDone("h1")
    \/ PrDeleteDone("h1")
    \/ PrSendDone("h1")

SpecMirrorDup == InitRaids /\ [][NextMirrorDup]_vars

\* A newcomer part-way through onboarding, who may have been handed Visitor
\* by an administrator; the guild has every role and the onboarding channel.
InitOnboarding ==
    /\ guild = [roles |-> TrackRoles, onboarding |-> TRUE, dest |-> TRUE]
    /\ present = Users
    /\ roles \in [Users -> {{NEWCOMER_ROLE} \cup V \cup C :
                              V \in SUBSET {VISITOR_ROLE},
                              C \in {{}} \cup {{c} : c \in ClassSet}}]
    /\ \E f \in [Users -> {d \in InitDicts : ~Get(d, "verified", FALSE)}] : LoadedRecords(f)
    /\ proc = [h \in Handlers |-> IdleProc]
    /\ failBudget = 0
    /\ InitMirror

\* The onboarding triggers of a user, handled concurrently: a handler may
\* start while the other is suspended at an await.
NextOnboarding ==
    \E h \in Handlers :
        \/ \E u \in Users : AcceptRules(h, u)
        \/ \E u \in Users : ConfirmNickname(h, u)
        \/ \E u \in Users, c \in ClassSet : ClassSelect(h, u, c)
        \/ \E u \in Users, c \in ClassSet : Reaction(h, u, c)
        \/ GateSteps(h)
        \/ FlAckDone(h)
        \/ CsRmDone(h)
        \/ CsAddDone(h)
        \/ CsAckDone(h)
        \/ RxRmDone(h)
        \/ RxAddDone(h)
        \/ RxAckDone(h)

SpecOnboarding == InitOnboarding /\ [][NextOnboarding]_vars

\* A new user who holds only Newcomer and has selected a track, in a guild
\* that has every role and the onboarding channel.
\* A member on the way through the gate leaves the guild, and may come back:
\* the gate runs in one handler, the member events in another.
InitLeave ==
    /\ guild = [roles |-> TrackRoles, onboarding |-> TRUE, dest |-> TRUE]
    /\ present = Users
    /\ roles \in [Users -> {{NEWCOMER_ROLE} \cup V \cup C :
                              V \in SUBSET {VISITOR_ROLE},
                              C \in {{}} \cup {{c} : c \in ClassSet}}]
    /\ \E f \in [Users -> {d \in InitDicts : ~Get(d, "verified", FALSE)}] : LoadedRecords(f)
    /\ proc = [h \in Handlers |-> IdleProc]
    /\ failBudget = 0
    /\ InitMirror

NextLeave ==
    \/ \E u \in Users : FixGate("h1", u)
    \/ GateSteps("h1")
    \/ \E u \in Users : MemberRemove("h2", u)
    \/ \E u \in Users : MemberJoin("h2", u)
    \/ JnAddDone("h2")
    \/ JnNewcomerDone("h2")

SpecLeave == InitLeave /\ [][NextLeave]_vars

\* Flag buttons and raid posts, one handler at a time, in a process that
\* may stop inside a save and start again.
InitCrash ==
    /\ guild = [roles |-> TrackRoles, onboarding |-> TRUE, dest |-> TRUE]
    /\ present = Users
    /\ roles \in [Users -> {{NEWCOMER_ROLE} \cup C : C \in {{}} \cup {{c} : c \in ClassSet}}]
    /\ \E D \in SUBSET Users :
        \E f \in [D -> {d \in InitDicts : ~Get(d, "verified", FALSE)}] : LoadedRecords(f)
    /\ proc = [h \in Handlers |-> IdleProc]
    /\ failBudget = 0
    /\ InitMirror

NextCrash ==
    \/ \E u \in Users : AcceptRules("h1", u)
    \/ \E u \in Users : ConfirmNickname("h1", u)
    \/ FlAckDone("h1")
    \/ CvAddDone("h1")
    \/ CvRmNewcomerDone("h1")
    \/ CvNoticeDone("h1")
    \/ \E k \in RaidKeys : MessageCreate("h1", k, TRUE)
    \/ PrFetchDone("h1")
    \/ PrDeleteDone("h1")
    \/ PrSendDone("h1")
    \/ \E u \in Users, fl \in {"rules_accepted", "nickname_confirmed"} :
            StopInSaveVerified("h1", u, fl)
    \/ StopInSaveState("h1")
    \/ Restart

SpecCrash == InitCrash /\ [][NextCrash]_vars

\* The gate of a member on the way through onboarding, run by fixgate and by
\* the rules button, with platform calls that may raise.
InitFaulty ==
    /\ guild \in [roles : {TrackRoles}, onboarding : BOOLEAN, dest : {TRUE}]
    /\ present = Users
    /\ roles \in [Users -> {{NEWCOMER_ROLE} \cup V \cup C :
                              V \in SUBSET {VISITOR_ROLE},
                              C \in {{}} \cup {{c} : c \in ClassSet}}]
    /\ \E f \in [Users -> InitDicts] : LoadedRecords(f)
    /\ proc = [h \in Handlers |-> IdleProc]
    /\ failBudget = MaxFailures
    /\ InitMirror

NextFaulty ==
    \/ \E u \in Users : FixGate("h1", u)
    \/ \E u \in Users : AcceptRules("h1", u)
    \/ FlAckDone("h1")
    \/ GateSteps("h1")

SpecFaulty == InitFaulty /\ [][NextFaulty]_vars

\* The raid mirror with platform calls that may raise: create events and
\* refreshes, one handler at a time.
InitMirrorFaulty ==
    /\ guild \in [roles : {TrackRoles}, onboarding : {TRUE}, dest : BOOLEAN]
    /\ present = Users
    /\ roles = [u \in Users |-> {}]
    /\ LoadedRecords(EmptyDict)
    /\ proc = [h \in Handlers |-> IdleProc]
    /\ failBudget = MaxFailures
    /\ InitMirror

NextMirrorFaulty ==
    \/ \E k \in RaidKeys, e \in BOOLEAN : MessageCreate("h1", k, e)
    \/ RefreshMirrors("h1")
    \/ EwFetchDone("h1")
    \/ EwDeleteDone("h1")
    \/ PrFetchDone("h1")
    \/ PrDeleteDone("h1")
    \/ PrSendDone("h1")
    \/ Tick

SpecMirrorFaulty == InitMirrorFaulty /\ [][NextMirrorFaulty]_vars

\* The raid mirror in a process that may stop at an await, or between the
\* send of a destination message and the write of its binding, and start again.
NextRestart ==
    \/ \E k \in RaidKeys, e \in BOOLEAN : MessageCreate("h1", k, e)
    \/ RefreshMirrors("h1")
    \/ EwFetchDone("h1")
    \/ EwDeleteDone("h1")
    \/ PrFetchDone("h1")
    \/ PrDeleteDone("h1")
    \/ PrSendDone("h1")
    \/ Tick
    \/ Stop
    \/ StopInSaveState("h1") /\ state_disk' = state_disk
    \/ Restart

SpecRestart == InitRaids /\ [][NextRestart]_vars

\* Records whose stored track is absent or is a value outside VALID_TRACKS
\* (the file is read as it is: only a bare boolean is normalised), for members
\* in the guild and for users who are about to join.
InitStray ==
    /\ guild \in [roles : {TrackRoles}, onboarding : BOOLEAN, dest : {TRUE}]
    /\ present \in {Users, {}}
    /\ roles \in [Users -> {R \in SUBSET (TrackRoles \cup ClassSet) :
                              Cardinality(R \cap ClassSet) <= 1}]
    /\ \A u \in Users \ present : roles[u] = {}
    /\ \E f \in [Users -> {IF "track" \in DOMAIN d THEN [d EXCEPT !["track"] = "officer"]
                              ELSE d : d \in InitDicts}] : LoadedRecords(f)
    /\ proc = [h \in Handlers |-> IdleProc]
    /\ failBudget = 0
    /\ InitMirror

NextStray ==
    \/ \E u \in Users : FixGate("h1", u)
    \/ GateSteps("h1")
    \/ RetroVerify("h1")
    \/ SweepSteps("h1")
    \/ \E u \in Users : MemberJoin("h1", u)
    \/ JnAddDone("h1")
    \/ JnNewcomerDone("h1")

SpecStray == InitStray /\ [][NextStray]_vars

InitFlags ==
    /\ guild = [roles |-> TrackRoles, onboarding |-> TRUE, dest |-> TRUE]
    /\ present = Users
    /\ roles = [u \in Users |-> {NEWCOMER_ROLE}]
    /\ \E f \in [Users -> {Opt("track", t) : t \in VALID_TRACKS}] : LoadedRecords(f)
    /\ proc = [h \in Handlers |-> IdleProc]
    /\ failBudget = 0
    /\ InitMirror

\* The flag-sets of the user, one at a time, in any order and any number.
NextFlags ==
    \/ \E u \in Users : AcceptRules("h1", u)
    \/ \E u \in Users : ConfirmNickname("h1", u)
    \/ \E u \in Users, c \in ClassSet : ClassSelect("h1", u, c)
    \/ \E u \in Users, c \in ClassSet : Reaction("h1", u, c)
    \/ CvAddDone("h1")
    \/ CvRmNewcomerDone("h1")
    \/ CvNoticeDone("h1")
    \/ FlAckDone("h1")
    \/ CsRmDone("h1")
    \/ CsAddDone("h1")
    \/ CsAckDone("h1")
    \/ RxRmDone("h1")
    \/ RxAddDone("h1")
    \/ RxAckDone("h1")

SpecFlags == InitFlags /\ [][NextFlags]_vars

\* The bot starts in a guild with a member who holds Newcomer and has any
\* stored record.
InitStartup ==
    /\ guild = [roles |-> TrackRoles, onboarding |-> TRUE, dest |-> TRUE]
    /\ present = Users
    /\ roles \in [Users -> {{NEWCOMER_ROLE} \cup V \cup C :
                              V \in SUBSET {VISITOR_ROLE},
                              C \in {{}} \cup {{c} : c \in ClassSet}}]
    /\ \E f \in [Users -> InitDicts] : LoadedRecords(f)
    /\ proc = [h \in Handlers |-> IdleProc]
    /\ failBudget = 0
    /\ InitMirror

\* The process starts: on_ready is dispatched first, and later events are
\* dispatched while earlier handlers are suspended at an await.
NextStartup ==
    \E h \in Handlers :
        \/ OnReady(h)
        \/ SweepSteps(h)
        \/ \E u \in Users : ReadySeen /\ AcceptRules(h, u)
        \/ \E u \in Users : ReadySeen /\ ConfirmNickname(h, u)
        \/ FlAckDone(h)
        \/ GateSteps(h)

SpecStartup == InitStartup /\ [][NextStartup]_vars

\* A newcomer who holds Newcomer and neither track role, with any unverified
\* record, in a guild that has every role and the onboarding channel.
InitTracks ==
    /\ guild = [roles |-> TrackRoles, onboarding |-> TRUE, dest |-> TRUE]
    /\ present = Users
    /\ roles \in [Users -> {{NEWCOMER_ROLE} \cup C : C \in {{}} \cup {{c} : c \in ClassSet}}]
    /\ \E f \in [Users -> {d \in InitDicts : ~Get(d, "verified", FALSE)}] : LoadedRecords(f)
    /\ proc = [h \in Handlers |-> IdleProc]
    /\ failBudget = 0
    /\ InitMirror

\* Track selection, a flag button, gate evaluations and sweeps, dispatched
\* while earlier handlers are suspended at an await.
NextTracks ==
    \E h \in Handlers :
        \/ \E u \in Users, t \in VALID_TRACKS : ChooseTrack(h, u, t)
        \/ TbAckDone(h)
        \/ \E u \in Users : AcceptRules(h, u)
        \/ FlAckDone(h)
        \/ \E u \in Users : FixGate(h, u)
        \/ GateSteps(h)
        \/ RetroVerify(h)
        \/ SweepSteps(h)

SpecTracks == InitTracks /\ [][NextTracks]_vars

\* A newcomer, who may have been handed Visitor by an administrator and may
\* hold the first class role, whose record holds no class flag and no
\* verified entry; the track is the default one (none stored) or visitor.
InitLive ==
    /\ guild = [roles |-> TrackRoles, onboarding |-> TRUE, dest |-> TRUE]
    /\ present = Users
    /\ roles \in [Users -> {{NEWCOMER_ROLE} \cup V \cup C :
                              V \in SUBSET {VISITOR_ROLE},
                              C \in SUBSET {CLASS_ROLES[1]}}]
    /\ \E f \in [Users -> {d \in InitDicts :
                    /\ DOMAIN d \subseteq {"track", "rules_accepted", "nickname_confirmed"}
                    /\ Get(d, "track", "visitor") = "visitor"}] : LoadedRecords(f)
    /\ proc = [h \in Handlers |-> IdleProc]
    /\ failBudget = 0
    /\ InitMirror

\* The flag buttons in one handler and the class select in another, handled
\* concurrently.  The event loop resumes a suspended handler when the call it
\* awaits has returned: every handler in flight takes its next step.
NextLive ==
    \/ \E u \in Users : AcceptRules("h1", u)
    \/ \E u \in Users : ConfirmNickname("h1", u)
    \/ FlAckDone("h1")
    \/ \E u \in Users, c \in ClassSet : ClassSelect("h2", u, c)
    \/ CsRmDone("h2")
    \/ CsAddDone("h2")
    \/ CsAckDone("h2")
    \/ \E h \in Handlers : GateSteps(h)

Resume(h) ==
    \/ GateSteps(h)
    \/ FlAckDone(h)
    \/ CsRmDone(h)
    \/ CsAddDone(h)
    \/ CsAckDone(h)

SpecLive == InitLive /\ [][NextLive]_vars /\ \A h \in Handlers : WF_vars(Resume(h))

\* Records in which verified comes with all three flags stored.
InitLatched ==
    /\ InitGuild
    /\ \A u \in DOMAIN disk :
          Get(disk[u], "verified", FALSE) =>
              /\ Get(disk[u], "rules_accepted", FALSE)
              /\ Get(disk[u], "nickname_confirmed", FALSE)
              /\ Get(disk[u], "class_assigned", FALSE)

\* Every operation but resetclass, one at a time: no stored flag is cleared.
NextLatched ==
    \/ \E u \in Users : FixGate("h1", u)
    \/ \E u \in Users, t \in VALID_TRACKS : ChooseTrack("h1", u, t)
    \/ \E u \in Users : AcceptRules("h1", u)
    \/ \E u \in Users : ConfirmNickname("h1", u)
    \/ \E u \in Users, c \in ClassSet : ClassSelect("h1", u, c)
    \/ \E u \in Users, c \in ClassSet : Reaction("h1", u, c)
    \/ RetroVerify("h1")
    \/ AuditSnapshot("h1")
    \/ \E u \in Users : MemberRemove("h1", u)
    \/ \E u \in Users : MemberJoin("h1", u)
    \/ GateSteps("h1")
    \/ SweepSteps("h1")
    \/ TbAckDone("h1")
    \/ FlAckDone("h1")
    \/ CsRmDone("h1")
    \/ CsAddDone("h1")
    \/ CsAckDone("h1")
    \/ RxRmDone("h1")
    \/ RxAddDone("h1")
    \/ RxAckDone("h1")
    \/ JnAddDone("h1")
    \/ JnNewcomerDone("h1")
    \/ \E u \in Users, r \in TrackRoles : AdminEdit(u, r)

SpecLatched == InitLatched /\ [][NextLatched]_vars

\* ------------------------------------------------------------------------
\* Properties of the verification gate and the sweep
\* ------------------------------------------------------------------------
\* The stored records, by value.
RecordsOf == [u \in DOMAIN verified_users |-> heap[verified_users[u]]]

RecordOf(u) == IF u \in DOMAIN verified_users THEN heap[verified_users[u]] ELSE EmptyDict

IsVerified(u) == Get(RecordOf(u), "verified", FALSE)

TrackOf(u) == Get(RecordOf(u), "track", "-")

GateMutations == {"grant_target", "revoke_other", "revoke_newcomer", "write", "notice"}

\* C1: when check_verification runs for a member directly after a completed
\* run for the same member, with no change to the record or the roles in
\* between, the second run grants no role, revokes no role, writes nothing
\* and posts no notice, and no step of it changes the roles, the records or
\* the file.
C1_GateIdempotent ==
    [][\A h \in Handlers :
        (proc'[h].kind = "fixgate" /\ "repeat" \in proc'[h].before)
            => /\ proc'[h].log \cap GateMutations = {}
               /\ roles' = roles
               /\ RecordsOf' = RecordsOf
               /\ disk' = disk]_vars

\* A second run has completed after a first run that promoted the member.
C1_Witness ==
    \E h \in Handlers :
        /\ proc[h].kind = "fixgate"
        /\ proc[h].pc = "done"
        /\ {"repeat", "grant_target", "revoke_newcomer", "write", "notice"}
               \subseteq proc[h].before

SweepMutations == {"grant_target", "revoke_newcomer", "write", "memwrite"}

\* C10: when the sweep runs directly after a completed sweep, the second
\* run writes no record, grants no role and revokes no role.
C10_SweepIdempotent ==
    [][\A h \in Handlers :
        (proc'[h].kind = "sweep" /\ "repeat" \in proc'[h].before)
            => /\ proc'[h].log \cap SweepMutations = {}
               /\ roles' = roles
               /\ RecordsOf' = RecordsOf
               /\ disk' = disk]_vars

\* A second sweep has completed after a first one that verified a member
\* from the roles (case A) and removed Newcomer.
C10_Witness ==
    \E h \in Handlers :
        /\ proc[h].kind = "sweep"
        /\ proc[h].pc = "done"
        /\ {"repeat", "write", "revoke_newcomer"} \subseteq proc[h].before

FlagKinds == {"accept_rules", "confirm_nickname", "class_select", "reaction"}

TrackMemberships(u) == roles[u] \cap {MEMBER_ROLE, VISITOR_ROLE}

\* C7: for a user whose record is verified and who does not hold Newcomer,
\* no step of accept_rules, confirm_nickname, the class select or the class
\* reaction handler changes the stored track or the user's Guild Member and
\* Visitor memberships.
C7_VerifiedTrackStable ==
    [][\A h \in Handlers, u \in Users :
        (/\ proc'[h] # proc[h]
         /\ proc'[h].kind \in FlagKinds
         /\ proc'[h].user = u
         /\ IsVerified(u)
         /\ NEWCOMER_ROLE \notin roles[u])
            => /\ TrackOf(u)' = TrackOf(u)
               /\ TrackMemberships(u)' = TrackMemberships(u)]_vars

\* A class handler has evaluated the gate for a verified user without
\* Newcomer whose flags are all set and who lacks the role of the stored track.
C7_Witness ==
    \E h \in Handlers :
        LET u == proc[h].user
        IN  /\ proc[h].kind \in {"class_select", "reaction"}
            /\ proc[h].pc = "done"
            /\ "gate" \in proc[h].log
            /\ IsVerified(u)
            /\ NEWCOMER_ROLE \notin roles[u]
            /\ Get(RecordOf(u), "rules_accepted", FALSE)
            /\ Get(RecordOf(u), "nickname_confirmed", FALSE)
            /\ TrackOf(u) = "member"
            /\ TrackMemberships(u) = {VISITOR_ROLE}

\* New: not verified, and holding Newcomer or neither track role.
IsNew(u) ==
    /\ ~IsVerified(u)
    /\ (NEWCOMER_ROLE \in roles[u] \/ TrackMemberships(u) = {})

\* C8: a track-button press stores the pressed track when the user is new;
\* when the user is not new it changes no record and returns without a gate
\* evaluation.
C8_TrackOnlyWhenNew ==
    [][\A h \in Handlers, u \in Users :
        (/\ ~InFlight(h)
         /\ proc'[h] # proc[h]
         /\ proc'[h].kind = "choose_track"
         /\ proc'[h].user = u)
            => IF IsNew(u)
               THEN /\ TrackOf(u)' = proc'[h].arg
                    /\ "track" \in proc'[h].log
               ELSE /\ RecordsOf' = RecordsOf
                    /\ disk' = disk
                    /\ roles' = roles
                    /\ proc'[h].pc = "done"
                    /\ "gate" \notin proc'[h].log]_vars

\* A press on the other track by a user who is not new was turned away.
C8_Witness ==
    \E h \in Handlers :
        LET u == proc[h].user
        IN  /\ proc[h].kind = "choose_track"
            /\ proc[h].pc = "done"
            /\ "blocked" \in proc[h].log
            /\ ~IsNew(u)
            /\ TrackOf(u) \in VALID_TRACKS
            /\ TrackOf(u) # proc[h].arg

\* C16: the stored track is written at most once: a track-button press that
\* follows an accepted press of the same user stores nothing different from
\* what that press stored, also while the user is still new.
C16_TrackWrittenOnce ==
    \A h \in Handlers :
        (proc[h].kind = "choose_track" /\ "track" \in proc[h].log)
            => proc[h].before \subseteq {proc[h].arg}

\* C9: while a user's record exists, its verified flag never goes from true
\* to false or absent.
C9_VerifiedMonotone ==
    [][\A u \in Users :
        (u \in DOMAIN verified_users /\ IsVerified(u) /\ u \in DOMAIN verified_users')
            => IsVerified(u)']_vars

\* resetclass has cleared class_assigned in a verified record.
C9_Witness ==
    \E h \in Handlers :
        LET u == proc[h].user
        IN  /\ proc[h].kind = "resetclass"
            /\ proc[h].pc = "done"
            /\ "write" \in proc[h].log
            /\ IsVerified(u)
            /\ Get(RecordOf(u), "class_assigned", TRUE) = FALSE

\* C2: when two triggers for the same user are handled concurrently, at most
\* one of the two handlers grants the target role and at most one posts the
\* promotion notice.
C2_SinglePromotion ==
    \A g, h \in Handlers :
        (g # h /\ proc[g].user = proc[h].user)
            => /\ ~("grant_target" \in proc[g].log /\ "grant_target" \in proc[h].log)
               /\ ~("notice" \in proc[g].log /\ "notice" \in proc[h].log)

\* ------------------------------------------------------------------------
\* Properties of the raid mirror
\* ------------------------------------------------------------------------
\* The live messages the engine sent for raid key k.
LiveFor(k) == {d \in DOMAIN messages : messages[d].raidkey = k}

\* C3: once two concurrently handled message-create events have both
\* finished, at most one destination message sent for a raid key is live.
C3_OneLiveAfterRace ==
    Quiet => \A k \in RaidKeys : Cardinality(LiveFor(k)) <= 1

\* C4: with the handlers run one at a time, at most one message the engine
\* sent for a raid key is live, and it is the message the key's binding names.
C4_OneLiveBound ==
    \A k \in RaidKeys :
        /\ Cardinality(LiveFor(k)) <= 1
        /\ \A d \in LiveFor(k) :
            k \in DOMAIN state.mirrors /\ state.mirrors[k].dest_msg_id = d

\* A mirrored message was replaced within one week: the earlier message is
\* gone and the binding names the later one, which is live.
C4_Witness ==
    \E k \in DOMAIN state.mirrors :
        LET d == state.mirrors[k].dest_msg_id
        IN  /\ d \in LiveFor(k)
            /\ \E e \in 1..(d - 1) :
                /\ sent[e] = sent[d]
                /\ e \notin DOMAIN messages
            /\ proc["h1"].kind = "on_message_create"
            /\ proc["h1"].pc = "done"
            /\ {"delete", "bind"} \subseteq proc["h1"].log

\* The handler has come back from _ensure_week.
PastEnsureWeek(h) == proc[h].pc \in {"pr_fetch", "pr_delete", "pr_send", "um_fetch", "um_edit"}

\* C5: a handler that is past _ensure_week works under the current week key;
\* and the step in which _ensure_week resets a stale week leaves the mirrors
\* empty, the stored week key equal to the current week, the file equal to
\* the state, and none of the messages bound before the call live.
C5_WeekReset ==
    [][\A h \in Handlers :
        /\ PastEnsureWeek(h)' => state'.week_key = wk_now'
        /\ (/\ proc'[h] # proc[h]
            /\ proc'[h].ew = "reset"
            /\ (~InFlight(h) \/ proc[h].ew # "reset"))
               => /\ state.week_key # wk_now
                  /\ state'.mirrors = EmptyDict
                  /\ state'.week_key = wk_now'
                  /\ state_disk' = state'
                  /\ proc'[h].bound0 \cap DOMAIN messages' = {}]_vars

\* _ensure_week has just reset a week that had bindings, after deleting a message.
C5_Witness ==
    \E h \in Handlers :
        /\ proc[h].ew = "reset"
        /\ proc[h].pc = "pr_send"
        /\ proc[h].bound0 # {}
        /\ "delete" \in proc[h].log
        /\ "bind" \notin proc[h].log
        /\ state.mirrors = EmptyDict

\* C6: when the create handler has reset the week and has reached its send,
\* the messages bound before the reset are gone, no binding names one of
\* them, and every binding and every live message is of the current week.
C6_PurgeBeforeSend ==
    \A h \in Handlers :
        (/\ proc[h].kind = "on_message_create"
         /\ proc[h].ew = "reset"
         /\ "send" \in proc[h].log)
            => /\ proc[h].bound0 \cap DOMAIN messages = {}
               /\ \A k \in DOMAIN state.mirrors :
                    /\ state.mirrors[k].dest_msg_id \notin proc[h].bound0
                    /\ sent[state.mirrors[k].dest_msg_id].week = state.week_key
               /\ \A d \in DOMAIN messages : messages[d].week = state.week_key

\* The create handler has finished across a week change: it purged bindings
\* of the week before and bound a message of the new week.
C6_Witness ==
    \E h \in Handlers :
        /\ proc[h].kind = "on_message_create"
        /\ proc[h].pc = "done"
        /\ proc[h].ew = "reset"
        /\ proc[h].bound0 # {}
        /\ {"delete", "send", "bind"} \subseteq proc[h].log
        /\ proc[h].raidkey \in DOMAIN state.mirrors
        /\ state.mirrors[proc[h].raidkey].dest_msg_id \in DOMAIN messages
        /\ state.week_key > 1

\* ------------------------------------------------------------------------
\* Properties of the onboarding flow
\* ------------------------------------------------------------------------
AllFlags(u) ==
    /\ Get(RecordOf(u), "rules_accepted", FALSE)
    /\ Get(RecordOf(u), "nickname_confirmed", FALSE)
    /\ Get(RecordOf(u), "class_assigned", FALSE)

GateRoles(u) == roles[u] \cap TrackRoles

\* C11: for a new user who holds only Newcomer and has selected a track,
\* while fewer than three flags are stored the gate roles stay {Newcomer},
\* verified stays false and no handler grants or posts a notice; a handler
\* that ends with all three flags stored leaves the user with the track's
\* target role and without Newcomer, verified; and the notice is posted in
\* the step that sets verified, and only there, so exactly once.
C11_PromoteOnThirdFlag ==
    [][\A u \in Users :
        /\ ~AllFlags(u)' =>
              /\ GateRoles(u)' = {NEWCOMER_ROLE}
              /\ ~IsVerified(u)'
              /\ \A h \in Handlers : proc'[h].log \cap {"grant_target", "notice"} = {}
        /\ \A h \in Handlers :
              /\ (proc'[h].pc = "done" /\ proc'[h].user = u /\ AllFlags(u)') =>
                    /\ GateRoles(u)' = {TargetRoleName(TrackOf(u)')}
                    /\ IsVerified(u)'
              /\ (proc'[h].user = u /\ "notice" \in proc'[h].log /\ "notice" \notin proc[h].log)
                    => (~IsVerified(u) /\ IsVerified(u)')
              /\ (proc'[h].user = u /\ proc'[h] # proc[h] /\ ~IsVerified(u) /\ IsVerified(u)')
                    => {"grant_target", "revoke_newcomer", "notice"} \subseteq proc'[h].log]_vars

\* The third flag-set of a visitor-track user has ended: Visitor granted,
\* Newcomer revoked, verified, notice posted.
C11_Witness ==
    \E h \in Handlers :
        LET u == proc[h].user
        IN  /\ proc[h].kind = "confirm_nickname"
            /\ proc[h].pc = "done"
            /\ {"grant_target", "revoke_newcomer", "notice"} \subseteq proc[h].log
            /\ AllFlags(u)
            /\ IsVerified(u)
            /\ GateRoles(u) = {VISITOR_ROLE}

\* ------------------------------------------------------------------------
\* Properties of the raid mirror under reordered and repeated events
\* ------------------------------------------------------------------------
\* The embed messages of the source channel of raid key k.
EmbedSources(k) == {source[k][i].id : i \in {j \in DOMAIN source[k] : source[k][j].embed}}

\* The most recently created of them (ids grow with time).
NewestSource(k) == CHOOSE m \in EmbedSources(k) : \A n \in EmbedSources(k) : n <= m

\* C12: once the create events of the embed messages of a source channel,
\* all of one week, have been handled, the binding of the raid key names the
\* newest of those messages.
C12_LatestWins ==
    (Quiet /\ wk_now = 1 /\ guild.dest) =>
        \A k \in RaidKeys :
            EmbedSources(k) # {} =>
                /\ k \in DOMAIN state.mirrors
                /\ state.mirrors[k].source_msg_id = NewestSource(k)

\* C13: a create event handled again for the message that is the bound
\* source of its raid key under the current week deletes nothing and sends
\* nothing.
C13_RedeliveryNoEffect ==
    \A h \in Handlers :
        (proc[h].kind = "on_message_create" /\ proc[h].arg = "bound")
            => proc[h].log \cap {"delete", "send", "bind"} = {}

\* ------------------------------------------------------------------------
\* Properties of startup
\* ------------------------------------------------------------------------
\* C14: the startup sweep runs once per process start, and it has run to
\* completion before an onboarding handler executes a step.
C14_SweepOnceBeforeEvents ==
    /\ Cardinality({h \in Handlers : proc[h].kind = "on_ready"}) <= 1
    /\ \A h \in Handlers :
          proc[h].kind \in FlagKinds =>
              \E g \in Handlers : proc[g].kind = "on_ready" /\ proc[g].pc = "done"

\* ------------------------------------------------------------------------
\* Properties of the stored flags
\* ------------------------------------------------------------------------
\* C15, as stated: a verified record has, or has had, all three flags stored
\* true.  (Where no operation clears a flag, "has had" is "has".)
C15_VerifiedHadAllFlags ==
    \A u \in DOMAIN verified_users : IsVerified(u) => AllFlags(u)

\* C15, amended: a verified record has rules_accepted and nickname_confirmed
\* stored true.
C15_VerifiedHasRulesAndNick ==
    \A u \in DOMAIN verified_users :
        IsVerified(u) =>
            /\ Get(RecordOf(u), "rules_accepted", FALSE)
            /\ Get(RecordOf(u), "nickname_confirmed", FALSE)

\* The sweep has verified, from the roles, a member whose record had no flag.
C15_Witness ==
    \E h \in Handlers :
        /\ proc[h].kind = "sweep"
        /\ proc[h].pc = "done"
        /\ "write" \in proc[h].log
        /\ \E u \in DOMAIN verified_users :
              /\ IsVerified(u)
              /\ Get(RecordOf(u), "rules_accepted", FALSE)
              /\ Get(RecordOf(u), "nickname_confirmed", FALSE)
              /\ "class_assigned" \notin DOMAIN RecordOf(u)

\* ------------------------------------------------------------------------
\* C17: a press of the rules button or of the nickname button that has
\* returned without an error, whatever the record held before (verified
\* included), stored its flag true in the dict and in the file and ran one
\* gate evaluation for the user.
\* ------------------------------------------------------------------------
ButtonFlag(kind) ==
    IF kind = "accept_rules" THEN "rules_accepted" ELSE "nickname_confirmed"

C17_FlagSetStoresAndGates ==
    \A h \in Handlers :
        LET u == proc[h].user
            flag == ButtonFlag(proc[h].kind)
        IN  (/\ proc[h].kind \in {"accept_rules", "confirm_nickname"}
             /\ proc[h].pc = "done"
             /\ ~proc[h].failed)
                => /\ Get(RecordOf(u), flag, FALSE)
                   /\ u \in DOMAIN disk /\ Get(disk[u], flag, FALSE)
                   /\ "write" \in proc[h].log
                   /\ "gate" \in proc[h].log

\* ------------------------------------------------------------------------
\* C18: once on_member_remove has run for a user, and until the user joins
\* again, neither the dict nor the file holds a record of the user, so the
\* join that follows takes the unverified path.
\* ------------------------------------------------------------------------
C18_RemoveForgets ==
    \A h \in Handlers :
        LET u == proc[h].user
        IN  (/\ proc[h].kind = "on_member_remove"
             /\ proc[h].pc = "done"
             /\ u \notin present)
                => /\ u \notin DOMAIN verified_users
                   /\ u \notin DOMAIN disk

\* ------------------------------------------------------------------------
\* C19: whenever the process has stopped inside a save, the records file and
\* the mirror state file each hold a complete document, the one from before
\* the save or the new one.
\* ------------------------------------------------------------------------
C19_SaveIsAtomic == disk # Truncated /\ state_disk # Truncated

\* ------------------------------------------------------------------------
\* C20: while the record of a user exists, rules_accepted and
\* nickname_confirmed never go from true to false, and class_assigned goes
\* from true to false only in a resetclass issued by an administrator.
\* ------------------------------------------------------------------------
C20_FlagsLatched ==
    [][\A u \in Users :
        (u \in DOMAIN verified_users /\ u \in DOMAIN verified_users')
            => /\ Get(RecordOf(u), "rules_accepted", FALSE)
                    => Get(RecordOf(u), "rules_accepted", FALSE)'
               /\ Get(RecordOf(u), "nickname_confirmed", FALSE)
                    => Get(RecordOf(u), "nickname_confirmed", FALSE)'
               /\ (/\ Get(RecordOf(u), "class_assigned", FALSE)
                   /\ ~Get(RecordOf(u), "class_assigned", FALSE)')
                    => \E h \in Handlers :
                        /\ proc'[h].kind = "resetclass"
                        /\ proc'[h].user = u
                        /\ proc'[h].arg = "admin"]_vars

\* ------------------------------------------------------------------------
\* C21: the reporting command auditsnapshot leaves every field of every
\* verification record as it was, in the dict and in the file.
\* ------------------------------------------------------------------------
C21_SnapshotReadsOnly ==
    [][(\E h \in Handlers : proc'[h] # proc[h] /\ proc'[h].kind = "auditsnapshot")
            => RecordsOf' = RecordsOf /\ disk' = disk]_vars

\* ------------------------------------------------------------------------
\* C22: when the send of the promotion notice raises, the step leaves the
\* roles and the records as the gate evaluation made them, and verified
\* stays true in the dict and in the file.
\* ------------------------------------------------------------------------
C22_NoticeFailureKeeps ==
    [][\A h \in Handlers :
        (proc[h].pc = "cv_notice" /\ failBudget' < failBudget)
            => LET u == proc[h].user
               IN  /\ roles' = roles
                   /\ RecordsOf' = RecordsOf
                   /\ disk' = disk
                   /\ IsVerified(u)'
                   /\ u \in DOMAIN disk' /\ Get(disk'[u], "verified", FALSE)
                   /\ proc'[h].pc = "done"]_vars

\* A promotion whose role calls all succeeded and whose notice raised.
C22_Witness ==
    \E h \in Handlers :
        LET u == proc[h].user
        IN  /\ proc[h].pc = "done"
            /\ proc[h].failed
            /\ {"grant_target", "revoke_newcomer", "write", "notice"} \subseteq proc[h].log
            /\ IsVerified(u)
            /\ Get(disk[u], "verified", FALSE)
            /\ NEWCOMER_ROLE \notin roles[u]
            /\ roles[u] \cap {MEMBER_ROLE, VISITOR_ROLE} # {}

\* ------------------------------------------------------------------------
\* The sweep's repairs
\* ------------------------------------------------------------------------
\* The track the sweep works with: the stored one, else inferred from roles.
SweepTrack(u) ==
    InferTrack(TrackOf(u), MEMBER_ROLE \in roles[u], VISITOR_ROLE \in roles[u])

SweepTarget(u) == TargetRoleName(SweepTrack(u))

\* A sweep has completed and none of its role calls raised.
SweepDone == \E h \in Handlers :
    proc[h].kind = "sweep" /\ proc[h].pc = "done" /\ ~proc[h].failed

VerifiedOnDisk(u) == u \in DOMAIN disk /\ Get(disk[u], "verified", FALSE)

C24_OneLiveAfterRestart ==
    \A h \in Handlers :
        (proc[h].kind = "refresh" /\ proc[h].pc = "done" /\ ~proc[h].failed)
            => \A k \in RaidKeys : Cardinality(LiveFor(k)) <= 1

\* ------------------------------------------------------------------------
\* The gate condition
\* ------------------------------------------------------------------------
\* rules_accepted and nickname_confirmed stored, class_assigned stored or a
\* class role held, and Newcomer held or the record not verified.
GateReady(u) ==
    /\ Get(RecordOf(u), "rules_accepted", FALSE)
    /\ Get(RecordOf(u), "nickname_confirmed", FALSE)
    /\ (Get(RecordOf(u), "class_assigned", FALSE) \/ roles[u] \cap ClassSet # {})
    /\ ((RoleExists(NEWCOMER_ROLE) /\ NEWCOMER_ROLE \in roles[u]) \/ ~IsVerified(u))

\* C25: a run of check_verification makes promotion side effects exactly
\* when the gate condition holds as it starts; otherwise it returns at once,
\* having changed no role, written no record and sent no notice.
C25_GateExactly ==
    [][\A h \in Handlers, u \in Users :
        (/\ ~InFlight(h)
         /\ proc'[h] # proc[h]
         /\ proc'[h].kind = "fixgate"
         /\ proc'[h].user = u)
            => IF GateReady(u)
               THEN proc'[h].log \cap GateMutations # {}
               ELSE /\ proc'[h].pc = "done"
                    /\ proc'[h].log \cap GateMutations = {}
                    /\ roles' = roles
                    /\ RecordsOf' = RecordsOf
                    /\ disk' = disk]_vars

\* A verified member holding Newcomer, with no class flag stored but a class
\* role held, was promoted again: Newcomer was revoked and nothing written.
C25_Witness ==
    \E h \in Handlers :
        LET u == proc[h].user
        IN  /\ proc[h].kind = "fixgate"
            /\ proc[h].pc = "done"
            /\ "revoke_newcomer" \in proc[h].log
            /\ "write" \notin proc[h].log
            /\ IsVerified(u)
            /\ ~Get(RecordOf(u), "class_assigned", FALSE)
            /\ roles[u] \cap ClassSet # {}
            /\ NEWCOMER_ROLE \notin roles[u]

\* ------------------------------------------------------------------------
\* The outcome of a promotion
\* ------------------------------------------------------------------------
GateTarget(u) == TargetRoleName(ResolveTrack(RecordOf(u)))

GateOther(u) == OtherRoleName(ResolveTrack(RecordOf(u)))

\* A step of a gate run for u: each call it issues finds the role in the
\* state the call changes, and a run that ends after at least one side
\* effect, with no call failed, leaves the member promoted.  whatever_roles:
\* the target role is to be held even when the guild has no such role.
PromotionStep(h, u, whatever_roles) ==
    LET new == proc'[h].log \ proc[h].log
    IN  /\ "grant_target" \in new => GateTarget(u) \notin roles[u]
        /\ "revoke_other" \in new => GateOther(u) \in roles[u]
        /\ "revoke_newcomer" \in new => NEWCOMER_ROLE \in roles[u]
        /\ "write" \in new => ~IsVerified(u)
        /\ (/\ proc'[h].pc = "done"
            /\ ~proc'[h].failed
            /\ proc'[h].log \cap GateMutations # {})
                => /\ (whatever_roles \/ RoleExists(GateTarget(u)))
                        => GateTarget(u)' \in roles'[u]
                   /\ GateOther(u)' \notin roles'[u]
                   /\ NEWCOMER_ROLE \notin roles'[u]
                   /\ IsVerified(u)'
                   /\ VerifiedOnDisk(u)'

GateStepOf(h, u) ==
    /\ proc'[h] # proc[h]
    /\ proc'[h].kind = "fixgate"
    /\ proc'[h].user = u
    /\ (InFlight(h) => proc[h].kind = "fixgate")

C27_StrayTrackIsMember ==
    [][\A h \in Handlers :
        LET u == proc'[h].user
        IN  (/\ "grant_target" \in proc'[h].log \ proc[h].log
             /\ proc'[h].kind \in {"fixgate", "sweep", "on_member_join"}
             /\ TrackOf(u) \notin VALID_TRACKS
             /\ (proc'[h].kind = "sweep" => TrackMemberships(u) = {}))
                => TargetRoleName(proc'[h].track) = MEMBER_ROLE]_vars

\* The sweep reaches member u in this step: it starts, or it returns from the
\* role call of the member before.
SweepStarts(h) == proc'[h].kind = "sweep" /\ proc[h].pc \in {"idle", "done"}

\* The member holds the target role of their track and is not verified.
CaseA(u) ==
    /\ u \in present
    /\ RoleExists(SweepTarget(u))
    /\ SweepTarget(u) \in roles[u]
    /\ ~IsVerified(u)

\* C28: the sweep, for a member who holds the target role of their track
\* (inferred from the held role when none is stored) and is not verified,
\* stores verified, rules_accepted and nickname_confirmed true, stores
\* class_assigned true exactly when a class role is held or it was true,
\* writes the record to the file, and revokes Newcomer if it was held.
C28_SweepBackfills ==
    [][\A h \in Handlers :
        /\ \A u \in Users : (SweepStarts(h) /\ CaseA(u)) =>
            /\ IsVerified(u)'
            /\ Get(RecordOf(u)', "rules_accepted", FALSE)
            /\ Get(RecordOf(u)', "nickname_confirmed", FALSE)
            /\ Get(RecordOf(u)', "class_assigned", FALSE)
                  = (roles[u] \cap ClassSet # {}
                        \/ Get(RecordOf(u), "class_assigned", FALSE))
            /\ u \in DOMAIN disk' /\ disk'[u] = RecordOf(u)'
            /\ TrackOf(u)' = SweepTrack(u)
            /\ IF NEWCOMER_ROLE \in roles[u]
               THEN proc'[h].pc = "sw_a_rm" /\ proc'[h].user = u
               ELSE proc'[h].pc = "done" /\ roles' = roles
        /\ (proc[h].pc = "sw_a_rm" /\ proc'[h] # proc[h]) =>
            /\ NEWCOMER_ROLE \notin roles'[proc[h].user]
            /\ roles'[proc[h].user] = roles[proc[h].user] \ {NEWCOMER_ROLE}
            /\ RecordsOf' = RecordsOf /\ disk' = disk]_vars

\* A sweep has verified from the roles a member who holds no class role and
\* whose record carries no class flag, and has revoked the member's Newcomer.
C28_Witness ==
    \E h \in Handlers : \E u \in present :
        /\ proc[h].kind = "sweep" /\ proc[h].pc = "done"
        /\ {"write", "revoke_newcomer"} \subseteq proc[h].log
        /\ IsVerified(u) /\ VerifiedOnDisk(u)
        /\ ~Get(RecordOf(u), "class_assigned", FALSE)
        /\ roles[u] \cap ClassSet = {}
        /\ NEWCOMER_ROLE \notin roles[u]

\* C29: after a sweep whose role calls all succeeded, in a guild that has
\* Guild Member and Visitor, every verified member holds the target role of
\* their track and no Newcomer, and every holder of the target role of their
\* track is verified.
C29_SweepAligns ==
    (SweepDone /\ {MEMBER_ROLE, VISITOR_ROLE} \subseteq guild.roles)
        => \A u \in present :
            /\ IsVerified(u) =>
                    (SweepTarget(u) \in roles[u] /\ NEWCOMER_ROLE \notin roles[u])
            /\ SweepTarget(u) \in roles[u] => IsVerified(u)

\* A sweep has granted the target role to a verified member who lacked it
\* and has revoked the member's Newcomer.
C29_Witness ==
    \E h \in Handlers : \E u \in present :
        /\ proc[h].kind = "sweep" /\ proc[h].pc = "done" /\ ~proc[h].failed
        /\ {MEMBER_ROLE, VISITOR_ROLE} \subseteq guild.roles
        /\ {"grant_target", "revoke_newcomer"} \subseteq proc[h].log
        /\ IsVerified(u)
        /\ SweepTarget(u) \in roles[u]
        /\ NEWCOMER_ROLE \notin roles[u]

\* ------------------------------------------------------------------------
\* The postcondition of _post_or_replace
\* ------------------------------------------------------------------------
\* A call of _post_or_replace returns in this step.
PostEnds(h) ==
    /\ proc'[h] # proc[h]
    /\ proc'[h].kind = "post_or_replace"
    /\ proc'[h].pc = "done"

\* The raid key of the call is bound to the source message of the call and to
\* the message just sent, the file holds the state, and the message bound at
\* the call is not live.
PostReplaced(h) ==
    LET k == proc'[h].raidkey
        d == Len(sent')
    IN  /\ Len(sent') = Len(sent) + 1
        /\ d \in DOMAIN messages'
        /\ k \in DOMAIN state'.mirrors
        /\ state'.mirrors[k] = Binding(proc'[h].src, d)
        /\ state_disk' = state'
        /\ proc'[h].bound0 \cap DOMAIN messages' = {}

\* The call has changed neither the state, nor its file, nor the channel.
PostSkipped ==
    /\ state' = state
    /\ state_disk' = state_disk
    /\ messages' = messages
    /\ sent' = sent

\* C30: a call of _post_or_replace with a source message that carries an
\* embed ends with the raid key bound to the source message and the newly
\* sent destination message, the state persisted and the message bound
\* before not live; a call with a source message without an embed leaves the
\* state and the destination channel unchanged.
C30_PostOrReplace ==
    [][\A h \in Handlers :
        PostEnds(h) => IF proc'[h].arg = "embed" THEN PostReplaced(h) ELSE PostSkipped]_vars

\* C30, for a guild that has the destination channel or has none: with an
\* embed and a destination channel the call ends with the raid key bound to
\* the source message and the newly sent message, the state persisted and the
\* message bound before not live; without an embed or without a destination
\* channel the call leaves the state and the destination channel unchanged.
C30_PostOrReplaceWhereChannelExists ==
    [][\A h \in Handlers :
        PostEnds(h) => IF proc'[h].arg = "embed" /\ guild.dest
                       THEN PostReplaced(h) ELSE PostSkipped]_vars

\* A call with an embed has deleted the message bound before, sent a new one
\* and bound the raid key to it.
C30_Witness ==
    \E h \in Handlers :
        /\ proc[h].kind = "post_or_replace" /\ proc[h].pc = "done"
        /\ proc[h].arg = "embed"
        /\ {"delete", "send", "bind", "save"} \subseteq proc[h].log
        /\ proc[h].bound0 # {}
        /\ proc[h].bound0 \cap DOMAIN messages = {}
        /\ proc[h].raidkey \in DOMAIN state.mirrors
        /\ state.mirrors[proc[h].raidkey] = Binding(proc[h].src, Len(sent))
        /\ state_disk = state

\* ------------------------------------------------------------------------
\* The effects of _update_mirror
\* ------------------------------------------------------------------------
\* Handler h is an edit handler and takes a step.
EditStep(h) == proc'[h] # proc[h] /\ proc'[h].kind = "on_message_edit"

\* C31: _update_mirror sends no message and deletes none (the only deletions
\* of an edit handler are those of _ensure_week); with no binding for the
\* raid key it changes nothing; with a bound message that is live it edits
\* that message and leaves the binding as it is; with a bound message that is
\* gone it removes the binding and saves the state.
C31_UpdateInPlace ==
    [][\A h \in Handlers : EditStep(h) =>
        LET k == proc'[h].raidkey
            d == proc[h].existing
        IN  /\ sent' = sent
            /\ DOMAIN messages' # DOMAIN messages => proc[h].pc = "ew_delete"
            /\ (~InFlight(h) /\ proc'[h].ew = "same" /\ k \notin DOMAIN state.mirrors)
                    => /\ proc'[h].pc = "done"
                       /\ state' = state /\ state_disk' = state_disk
                       /\ messages' = messages
            /\ (~InFlight(h) /\ proc'[h].ew = "same" /\ k \in DOMAIN state.mirrors)
                    => /\ proc'[h].pc = "um_fetch"
                       /\ proc'[h].existing = state.mirrors[k].dest_msg_id
                       /\ state' = state /\ messages' = messages
            /\ (proc[h].pc = "um_fetch" /\ d \in DOMAIN messages)
                    => /\ proc'[h].pc = "um_edit"
                       /\ state' = state /\ messages' = messages
            /\ (proc[h].pc = "um_fetch" /\ d \notin DOMAIN messages)
                    => /\ proc'[h].pc = "done"
                       /\ k \notin DOMAIN state'.mirrors
                       /\ \A j \in DOMAIN state.mirrors \ {k} :
                            j \in DOMAIN state'.mirrors /\ state'.mirrors[j] = state.mirrors[j]
                       /\ state_disk' = state'
                       /\ messages' = messages
            /\ proc[h].pc = "um_edit"
                    => /\ proc'[h].pc = "done"
                       /\ state' = state
                       /\ messages' = [messages EXCEPT ![d].src = proc[h].src]]_vars

\* An edit handler has edited the live message bound to its raid key, and
\* the binding names that message as before.
C31_Witness ==
    \E h \in Handlers :
        /\ proc[h].kind = "on_message_edit" /\ proc[h].pc = "done"
        /\ "edit" \in proc[h].log
        /\ proc[h].raidkey \in DOMAIN state.mirrors
        /\ LET d == state.mirrors[proc[h].raidkey].dest_msg_id
           IN  /\ d \in DOMAIN messages
               /\ messages[d].src = proc[h].src
               /\ sent[d].week = state.week_key

\* ------------------------------------------------------------------------
\* C32: an edit of a message that is not the source message recorded in the
\* binding of its raid key leaves the bound destination message, its content
\* and the binding unchanged: no step of such an edit handler changes the
\* destination channel or the bindings.
\* ------------------------------------------------------------------------
C32_OnlyBoundSourceEdits ==
    [][\A h \in Handlers :
        LET k == proc[h].raidkey
        IN  (/\ proc[h].kind = "on_message_edit"
             /\ proc[h].pc \in {"um_fetch", "um_edit"}
             /\ proc'[h] # proc[h]
             /\ k \in DOMAIN state.mirrors
             /\ state.mirrors[k].source_msg_id # proc[h].src
             /\ state.mirrors[k].dest_msg_id \in DOMAIN messages)
                => /\ messages' = messages
                   /\ state'.mirrors = state.mirrors]_vars

\* ------------------------------------------------------------------------
\* The outcome of refresh_all_mirrors
\* ------------------------------------------------------------------------
\* Handler h runs refresh_all_mirrors and takes a step.
RefreshStep(h) == proc'[h] # proc[h] /\ proc'[h].kind = "refresh"

\* The step is past the week check of the refresh.
AfterWeekCheck(h) ==
    \/ proc[h].pc \in {"pr_fetch", "pr_delete", "pr_send"}
    \/ ~InFlight(h) /\ proc'[h].ew = "same"

\* The message posted last among those of the channel of raid key k that
\* carry an embed, or NoMsg.
NewestEmbed(k) ==
    LET I == {i \in DOMAIN source[k] : source[k][i].embed}
    IN  IF I = {} THEN NoMsg
        ELSE source[k][CHOOSE i \in I : \A j \in I : j <= i].id

\* The binding of raid key k, or none.
BindingOf(st, k) == IF k \in DOMAIN st.mirrors THEN {st.mirrors[k]} ELSE {}

\* Every raid key whose channel has a message with an embed is bound to the
\* newest such message and to a live destination message.
BoundToNewest ==
    \A k \in RaidKeys : NewestEmbed(k) # NoMsg =>
        /\ k \in DOMAIN state.mirrors
        /\ state.mirrors[k].source_msg_id = NewestEmbed(k)
        /\ state.mirrors[k].dest_msg_id \in LiveFor(k)

\* No step after the week check touches the binding of a raid key whose
\* channel has no message with an embed.
OthersKept(h) ==
    AfterWeekCheck(h) =>
        \A k \in RaidKeys : NewestEmbed(k) = NoMsg =>
            BindingOf(state', k) = BindingOf(state, k)

\* C33: when refresh_all_mirrors has completed with every call succeeding,
\* every raid key whose source channel has a message with an embed is bound
\* to the newest such message, and a raid key whose channel has none keeps
\* the binding it had after the week check.
C33_RefreshBindsNewest ==
    [][\A h \in Handlers : RefreshStep(h) =>
        /\ (proc'[h].pc = "done" /\ ~proc'[h].failed) => BoundToNewest'
        /\ OthersKept(h)]_vars

\* C33, in a guild that has the destination channel: the raid keys with an
\* embed message are bound to the newest one when the refresh completes; in
\* any guild the refresh leaves the bindings of the other raid keys as they
\* were after the week check.
C33_RefreshBindsNewestWhereChannelExists ==
    [][\A h \in Handlers : RefreshStep(h) =>
        /\ (proc'[h].pc = "done" /\ ~proc'[h].failed /\ guild.dest) => BoundToNewest'
        /\ OthersKept(h)]_vars

\* A refresh has bound a raid key to the newer of two messages with an embed
\* in its channel, while the other raid key has no message and no binding.
C33_Witness ==
    \E h \in Handlers : \E k, j \in RaidKeys :
        /\ proc[h].kind = "refresh" /\ proc[h].pc = "done" /\ ~proc[h].failed
        /\ "bind" \in proc[h].log
        /\ Len(SelectSeq(source[k], LAMBDA m : m.embed)) = 2
        /\ state.mirrors[k].source_msg_id = source[k][2].id
        /\ state.mirrors[k].dest_msg_id \in LiveFor(k)
        /\ FoundIn(source[j]) = NoMsg
        /\ j \notin DOMAIN state.mirrors

\* ------------------------------------------------------------------------
\* The week reset under concurrency
\* ------------------------------------------------------------------------
\* _ensure_week, called by handler h, replaces self.state in this step.
ResetStep(h) ==
    /\ proc'[h] # proc[h]
    /\ proc'[h].ew = "reset"
    /\ (~InFlight(h) \/ proc[h].ew # "reset")

\* C34: with mirror handlers run concurrently across a week change, the week
\* reset of one handler erases no binding that another handler stored under
\* the new week key, so it leaves no destination message of the new week
\* live without a binding.
C34_NewWeekBindingKept ==
    [][\A h \in Handlers : ResetStep(h) =>
        \A k \in RaidKeys :
            (/\ state.week_key = wk_now
             /\ k \in DOMAIN state.mirrors
             /\ state.mirrors[k].dest_msg_id \in DOMAIN messages')
                => /\ k \in DOMAIN state'.mirrors
                   /\ state'.mirrors[k] = state.mirrors[k]]_vars

\* ------------------------------------------------------------------------
\* C35: when on_member_remove and a gate evaluation for the same member have
\* both finished and the member has not joined again, neither the dict nor
\* the file holds a record of the member, whether the evaluation ended
\* before the member left or was in flight at that moment.
\* ------------------------------------------------------------------------
C35_NoRecordAfterLeave ==
    \A u \in Users \ present :
        (\E h, g \in Handlers :
            /\ proc[h].kind = "on_member_remove" /\ proc[h].pc = "done"
            /\ proc[h].user = u
            /\ proc[g].kind = "fixgate" /\ proc[g].pc = "done"
            /\ proc[g].user = u)
                => RecordOf(u) = EmptyDict /\ u \notin DOMAIN disk

\* ------------------------------------------------------------------------
\* C36: from a state in which no member holds both Guild Member and
\* Visitor, track selections, flag sets, gate evaluations and sweeps, in any
\* order and interleaving, leave no member holding both once every handler
\* has finished.
\* ------------------------------------------------------------------------
C36_TrackRolesExclusive ==
    Quiet => \A u \in present : ~({MEMBER_ROLE, VISITOR_ROLE} \subseteq roles[u])

\* ------------------------------------------------------------------------
\* C37: when the send of _post_or_replace raises after the call has deleted
\* the message bound to the raid key, the raid key is not left bound to that
\* deleted message.
\* ------------------------------------------------------------------------
C37_NoBindingToDeleted ==
    [][\A h \in Handlers :
        LET k == proc[h].raidkey
        IN  (/\ proc[h].pc = "pr_send"
             /\ failBudget' < failBudget
             /\ "delete" \in proc[h].log
             /\ proc[h].existing \notin DOMAIN messages'
             /\ k \in DOMAIN state'.mirrors)
                => state'.mirrors[k].dest_msg_id # proc[h].existing]_vars

\* ------------------------------------------------------------------------
\* C39: when the mirror step of the first source channel fails during
\* refresh_all_mirrors, the run still scans and mirrors the remaining source
\* channels: once it has ended, every later raid key whose channel has a
\* message with an embed is bound to the newest such message.
\* ------------------------------------------------------------------------
C39_RefreshGoesOn ==
    \A h \in Handlers :
        (/\ proc[h].kind = "refresh" /\ proc[h].pc = "done"
         /\ proc[h].failed
         /\ proc[h].raidkey = RaidKeyList[1]
         /\ guild.dest)
            => \A i \in 2..Len(RaidKeyList) :
                LET k == RaidKeyList[i]
                IN  NewestEmbed(k) # NoMsg =>
                        /\ k \in DOMAIN state.mirrors
                        /\ state.mirrors[k].source_msg_id = NewestEmbed(k)
                        /\ state.mirrors[k].dest_msg_id \in LiveFor(k)

\* ------------------------------------------------------------------------
\* C38: when the acknowledgement or the channel message of a flag-set handler
\* raises after the flag was stored, and the gate condition holds for the
\* user, the handler still enters the gate evaluation.
\* ------------------------------------------------------------------------
C38_AckFailureStillGates ==
    [][\A h \in Handlers :
        (/\ proc[h].pc \in {"fl_ack", "cs_ack", "rx_ack"}
         /\ failBudget' < failBudget
         /\ "write" \in proc[h].log
         /\ GateReady(proc[h].user))
            => "gate" \in proc'[h].log]_vars

\* ------------------------------------------------------------------------
\* Promotion without a further trigger
\* ------------------------------------------------------------------------
\* The user holds Newcomer, the three conditions hold, and a flag-set handler
\* for the user has not returned yet.
ReadyAndPending(u) ==
    /\ u \in present
    /\ NEWCOMER_ROLE \in roles[u]
    /\ Get(RecordOf(u), "rules_accepted", FALSE)
    /\ Get(RecordOf(u), "nickname_confirmed", FALSE)
    /\ (Get(RecordOf(u), "class_assigned", FALSE) \/ roles[u] \cap ClassSet # {})
    /\ \E h \in Handlers :
        InFlight(h) /\ proc[h].kind \in FlagKinds /\ proc[h].user = u

Promoted(u) ==
    /\ IsVerified(u)
    /\ VerifiedOnDisk(u)
    /\ TargetRoleName(ResolveTrack(RecordOf(u))) \in roles[u]
    /\ NEWCOMER_ROLE \notin roles[u]

\* C40: with every handler in flight resumed and every call succeeding, a
\* user who holds Newcomer and for whom rules_accepted, nickname_confirmed
\* and the class condition have become true in handlers that have not all
\* returned is eventually verified, holds the target role of their track and
\* holds no Newcomer, whatever triggers follow or do not follow.
C40_EventuallyPromoted ==
    \A u \in Users : ReadyAndPending(u) ~> Promoted(u)

\* A flag button has run the gate and the user has been promoted.
C40_Witness ==
    \E h \in Handlers : \E u \in Users :
        /\ proc[h].kind \in {"accept_rules", "confirm_nickname"}
        /\ proc[h].pc = "done" /\ proc[h].user = u
        /\ {"write", "gate", "grant_target", "revoke_newcomer"} \subseteq proc[h].log
        /\ Promoted(u)

====
